---- MODULE Spec2Model ----
(***************************************************************************)
(* State-machine model of the Chimera installer back ends.                 *)
(*                                                                         *)
(* The repository holds two iterations of the same installation pipeline:  *)
(* src/chimera.py and src/main.py.  One run of the model is one process    *)
(* of one of them: `variant' says which script runs, `pc' is the position  *)
(* of the single thread of control, `cmds' is the ordered record of every  *)
(* external command the process has issued.  External tools are opaque:    *)
(* a command exits zero or non-zero, and what happens next is what         *)
(* run_cmd and the try/except/finally of run() make of that status.        *)
(*                                                                         *)
(* Strings that the code inspects character by character (device paths,    *)
(* swap sizes) are sequences of one-character strings.  The absence of an  *)
(* option (argparse's None) is the empty sequence: the code only ever      *)
(* tests these options for truthiness.                                     *)
(***************************************************************************)
EXTENDS Integers, Sequences, FiniteSets, TLC

VARIABLES
    variant,      \* which script this process runs: "chimera.py" or "main.py"
    request,      \* the options as parsed from the command line (never assigned again)
    args,         \* self.args: the namespace the installer reads and writes
    efiDir,       \* environment: /sys/firmware/efi exists
    archChroot,   \* environment: the host has the arch-chroot helper
    bootstrap,    \* environment: the host has the bootstrap tool of the
                  \* target (pacstrap for arch, debootstrap for debian)
    uefi,         \* self.uefi
    disk,         \* self.disk
    pc,           \* position of the thread of control
    stages,       \* the pipeline stages entered so far, in order
    cmds,         \* the external commands issued so far, in order
    failed,       \* the commands that made run_cmd (or subprocess) raise
    mounts,       \* mount targets currently mounted below the mount point
    populated,    \* the target root holds a base system (/etc exists)
    fstab,        \* what was written to the target's /etc/fstab in this run
    probes,       \* connectivity probes made, in order (TRUE: the name resolved)
    typed,        \* the lines read at the "Type 'YES' to proceed" prompt
    cleanups,     \* number of executions of cleanup()
    exitStatus,   \* process exit status; -1 while running
    successLogged, \* "Installation Successfully Completed." was printed
    installed,    \* the boot manager whose installation command succeeded, or ""
    targetBins,   \* package managers found under <mount point>/usr/bin
    arch_keyring_initialized, \* self.arch_keyring_initialized (main.py)
    machine_id,   \* <mount point>/etc/machine-id exists, as cleanup of main.py
                  \* found or left it
    bootKernel,   \* whether <mount point>/boot held vmlinuz* or kernel* when
                  \* configure_system of main.py was done with its updates:
                  \* "unknown" before, then "present" or "absent"
    kernelRepairs, \* number of calls of _emergency_install_kernel
    refindTool,   \* what install_bootloader of main.py saw when it looked for
                  \* <mount point>/usr/bin/refind-install: "unseen" while it
                  \* has not looked, then "present" or "absent"
    \* The wizard (src/chimera-gui.py, src/gui.py), a process of its own:
    gui,          \* which wizard script runs, "" where none does
    os_info,      \* self.os_info: NAME, ID and ID_LIKE of /etc/os-release
    page,         \* self.pages.currentIndex()
    rad_offline,  \* the "Offline Install" radio button is checked
    cmb_disk,     \* currentData() of the disk combo box
    rad_erase,    \* the "Erase Whole Disk" radio button is checked
    spin_swap,    \* value() of the swap size spin box
    parts,        \* the partitions listed in the three partition combo boxes
    cmb_root,     \* currentData() of the root combo box
    cmb_boot,     \* currentData() of the boot combo box
    cmb_swap,     \* currentData() of the swap combo box
    inp_user,     \* text() of the user name field
    inp_pass,     \* text() of the password field
    install_data, \* self.install_data
    dry_run,      \* self.dry_run
    process,      \* the command lines handed to QProcess.start, each with
                  \* the page go_next was on, the answer given to "Disk
                  \* changes are permanent. Proceed?" ("" when not asked)
                  \* and self.dry_run
    txt_log       \* the command lines a dry run printed to the log view

vars == <<variant, request, args, efiDir, archChroot, bootstrap, uefi, disk, pc, stages,
          cmds, failed, mounts, populated, fstab, probes, typed, cleanups,
          exitStatus, successLogged, installed, targetBins,
          arch_keyring_initialized, machine_id, bootKernel, kernelRepairs,
          refindTool, gui, os_info, page, rad_offline, cmb_disk, rad_erase,
          spin_swap, parts, cmb_root, cmb_boot, cmb_swap, inp_user, inp_pass,
          install_data, dry_run, process, txt_log>>

\* The state of the wizard.
wizard == <<gui, os_info, page, rad_offline, cmb_disk, rad_erase, spin_swap,
            parts, cmb_root, cmb_boot, cmb_swap, inp_user, inp_pass,
            install_data, dry_run, process, txt_log>>

\* What no step of an installer process changes: the script, the command
\* line, the host, and the wizard, if one launched it.
env == <<variant, request, efiDir, archChroot, bootstrap, wizard>>

\* State that only safety_check writes.
gate == <<typed>>

\* State that only main.py reads and writes.
mainOnly == <<targetBins, arch_keyring_initialized, machine_id, bootKernel,
              kernelRepairs, refindTool>>

----------------------------------------------------------------------------
(* Bounds of the model.                                                    *)

\* Swap sizes "1G" .. "<MaxSwapG>G" are requested in whole-disk mode.
MaxSwapG == 2

----------------------------------------------------------------------------
(* Strings.                                                                *)

NoArg == <<>>

dev_sda     == <<"/","d","e","v","/","s","d","a">>
dev_nvme0n1 == <<"/","d","e","v","/","n","v","m","e","0","n","1">>
dev_mmcblk0 == <<"/","d","e","v","/","m","m","c","b","l","k","0">>
\* a persistent name of an NVMe disk: it holds "nvme" but not as "/dev/nvme"
dev_byid    == <<"/","d","e","v","/","d","i","s","k","/","b","y","-","i","d","/","n","v","m","e","-","A">>
dev_sda1    == dev_sda \o <<"1">>
dev_sda2    == dev_sda \o <<"2">>
dev_sda3    == dev_sda \o <<"3">>

s_dev_nvme  == <<"/","d","e","v","/","n","v","m","e">>
s_dev_mmc   == <<"/","d","e","v","/","m","m","c">>
s_nvme      == <<"n","v","m","e">>
s_mmc       == <<"m","m","c">>

MOUNT_POINT == "/mnt/chimera_target"

\* str.startswith
StartsWith(s, p) ==
    /\ Len(p) <= Len(s)
    /\ SubSeq(s, 1, Len(p)) = p

\* the `in' operator on strings
Contains(s, p) ==
    \E i \in 1..(Len(s) - Len(p) + 1) : SubSeq(s, i, i + Len(p) - 1) = p

DigitChars == <<"0","1","2","3","4","5","6","7","8","9">>

IsDigit(c) == \E d \in 1..10 : DigitChars[d] = c

DigitValue(c) == (CHOOSE d \in 1..10 : DigitChars[d] = c) - 1

\* str(n) for 0 <= n <= 9
DigitStr(n) == <<DigitChars[n + 1]>>

\* ''.join(filter(str.isdigit, s))
RECURSIVE FilterDigits(_)
FilterDigits(s) ==
    IF s = <<>> THEN <<>>
    ELSE IF IsDigit(Head(s)) THEN <<Head(s)>> \o FilterDigits(Tail(s))
         ELSE FilterDigits(Tail(s))

\* int(s) of a non-empty string of decimal digits
RECURSIVE ParseInt(_)
ParseInt(s) ==
    IF s = <<>> THEN 0
    ELSE ParseInt(SubSeq(s, 1, Len(s) - 1)) * 10 + DigitValue(s[Len(s)])

\* str.upper, on the letters a swap size can hold
UpperChar(c) ==
    CASE c = "g" -> "G"
      [] c = "m" -> "M"
      [] c = "k" -> "K"
      [] OTHER   -> c

Upper(s) == [i \in 1..Len(s) |-> UpperChar(s[i])]

----------------------------------------------------------------------------
(* Offsets handed to `parted mkpart'.                                      *)

MiB(n)      == [unit |-> "MiB", n |-> n]         \* f"{n}MiB"
Percent100  == [unit |-> "%", n |-> 100]         \* "100%"
CalcExpr    == [unit |-> "calc", n |-> 0]        \* "calc(100% - ...)"
ShellExpr   == [unit |-> "shell", n |-> 0]       \* "$(echo ... ) + $(numfmt ...) ..."s
NoOff       == [unit |-> "", n |-> 0]

----------------------------------------------------------------------------
(* Commands.                                                               *)

\* A command as issued: the stage whose function issued it, the tool, its
\* remaining arguments, the device operand, the mkpart extents, where it
\* runs ("host", or inside the target through "chroot" / "arch-chroot"),
\* and the check and ignore_error arguments of the call that issued it.
\* `line' holds, character by character, the string handed to /bin/sh -c
\* when the call built it from values of the request; it is empty for a
\* fixed string, which `tool' names.
Cmd(stage, tool, op, dev, from, to, where) ==
    [stage |-> stage, tool |-> tool, op |-> op, dev |-> dev,
     from |-> from, to |-> to, where |-> where,
     check |-> TRUE, ignore |-> FALSE, line |-> <<>>]

HostCmd(stage, tool, op, dev) == Cmd(stage, tool, op, dev, NoOff, NoOff, "host")

MkPart(disk_, from, to) ==
    Cmd("Partition", "parted", "mkpart primary", disk_, from, to, "host")

\* One call of run_cmd (or of subprocess.run): the command with the check
\* and ignore_error arguments of the call.
Step(c, check, ignore) == [c EXCEPT !.check = check, !.ignore = ignore]

\* The default call with check=False: the exit status is returned, not raised.
Must_unchecked(c) == Step(c, FALSE, FALSE)

Must(c) == Step(c, TRUE, FALSE)      \* run_cmd(cmd): check=True, ignore_error=False

\* The same call with run_cmd's defaults: a non-zero exit raises.
May_checked(c) == Step(c, TRUE, FALSE)

May(c)  == Step(c, FALSE, TRUE)      \* run_cmd(cmd, check=False, ignore_error=True)

Soft(c) == Step(c, TRUE, TRUE)       \* run_cmd(cmd, ignore_error=True)

Ask(c)  == Step(c, FALSE, FALSE)     \* run_cmd(cmd, check=False)

\* A run_cmd whose handler re-raises whatever the check argument.
run_cmd_raiseUnchecked(rc0, check, ignore_error) ==
    IF rc0 THEN "True"
    ELSE IF ~ignore_error THEN "raise"
    ELSE "False"

\* run_cmd, given whether the command exited with status 0: what the caller
\* gets.  subprocess.run raises CalledProcessError only under check=True;
\* the handler re-raises unless ignore_error is set.
run_cmd(rc0, check, ignore_error) ==
    IF rc0 THEN "True"
    ELSE IF ~check THEN "False"
    ELSE IF ~ignore_error THEN "raise"
    ELSE "False"

\* The steps of a program at which a non-zero exit status propagates.
RaisePoints(prog) ==
    {k \in 1..Len(prog) : run_cmd(FALSE, prog[k].check, prog[k].ignore) = "raise"}

\* How a straight-line program of run_cmd calls can end: 0 when no call
\* raised, k when the k-th call raised (the calls after it are not made).
Endings(prog) == {0} \cup RaisePoints(prog)

\* The commands issued by a run of prog that ended with e.
Issued(prog, e) ==
    LET n == IF e = 0 THEN Len(prog) ELSE e
    IN  SubSeq(prog, 1, n)

\* The command that raised, if any.
Raised(prog, e) == IF e = 0 THEN <<>> ELSE <<prog[e]>>

\* Mount targets established by the `mount <dev> <dir>' commands of a run of
\* prog that ended with e (a command that raised mounted nothing).
MountsOf(prog, e) ==
    LET n == IF e = 0 THEN Len(prog) ELSE e - 1
    IN  {prog[i].op : i \in {j \in 1..n : /\ prog[j].tool = "mount"
                                         /\ prog[j].dev # NoArg}}

----------------------------------------------------------------------------
(* The try / except / finally of run().                                    *)

\* A run() whose except clause exits without a finally clause behind it.
AfterException_noFinally == "done"

\* `except Exception' logs and calls sys.exit(1); `finally' then runs
\* cleanup().  Where control goes when a stage raises an Exception.
AfterException == "cleanup"

\* SystemExit is no Exception: it passes the except clause, and the finally
\* clause runs cleanup().  Where control goes when safety_check exits.
AfterSystemExit == "cleanup"

\* sys.exit(1) in the except clause, and sys.exit("<message>").
EXIT_FAILURE == 1

\* The exit status of argparse's parser.error().
EXIT_USAGE == 2

\* A stage raised an Exception inside the try block of run().
Abort ==
    /\ pc' = AfterException
    /\ exitStatus' = EXIT_FAILURE

\* A run of prog, issued from inside the try block of run(): the commands
\* are recorded, and control goes to `next' or to the exception path.
RunProgram(prog, e, next) ==
    /\ cmds' = cmds \o Issued(prog, e)
    /\ failed' = failed \o Raised(prog, e)
    /\ IF e = 0
       THEN pc' = next /\ exitStatus' = exitStatus
       ELSE Abort

----------------------------------------------------------------------------
(* Inputs.                                                                 *)

Disks == {dev_sda, dev_nvme0n1, dev_mmcblk0, dev_byid}

\* "1G" .. "<MaxSwapG>G" and "512M"
SwapSizes ==
    {DigitStr(n) \o <<"G">> : n \in 1..MaxSwapG} \cup {<<"5","1","2","M">>}

\* --disk alone, with or without a swap size.
WholeDiskArgs ==
    {[disk |-> dev_sda, boot |-> NoArg, rootfs |-> NoArg, swap |-> s] :
        s \in {NoArg, <<"1","G">>}}

\* No --disk: every combination of --boot and --rootfs, given or not, equal
\* or not, and a swap partition beside a complete pair.
ManualArgs ==
    {[disk |-> NoArg, boot |-> b, rootfs |-> r, swap |-> NoArg] :
        b \in {NoArg, dev_sda1, dev_sda2}, r \in {NoArg, dev_sda2}}
    \cup {[disk |-> NoArg, boot |-> dev_sda1, rootfs |-> dev_sda2, swap |-> dev_sda3]}

\* --disk together with --boot and --rootfs.
BothArgs ==
    {[disk |-> dev_sda, boot |-> dev_sda1, rootfs |-> dev_sda2, swap |-> NoArg]}

\* --disk with the other kinds of disk name and the other swap sizes.
LayoutArgs ==
    {[disk |-> d, boot |-> NoArg, rootfs |-> NoArg, swap |-> s] :
        d \in Disks, s \in {NoArg} \cup SwapSizes}

TargetInputs == {"arch", "gentoo", "debian", "generic", "bal", "void"}

Request(p, t, o, y) ==
    [disk |-> p.disk, boot |-> p.boot, rootfs |-> p.rootfs, swap |-> p.swap,
     target |-> t, online |-> o, i_am_very_stupid |-> y,
     user |-> NoArg, passwd |-> NoArg]

\* The request with --user <name> and no --passwd.
a_user == <<"k", "e", "i">>
WithUser(r) == [r EXCEPT !.user = a_user]

\* Values of --user and --passwd with shell metacharacters in them.
meta_user == <<"k", ";", "i", "d">>
a_passwd == <<"p", "w">>
meta_passwd == <<"'", ";", "i", "d", ";", "'">>

\* The request with --passwd, and --user or not.
WithAccount(r, user, passwd) == [r EXCEPT !.user = user, !.passwd = passwd]

\* The command lines of the model.  Every partitioning choice on sda is
\* combined with every target and mode; the disk name and the swap size,
\* which only decide the partition layout, the bypass flag, which only
\* decides the safety gate, and --disk beside --boot and --rootfs vary
\* under one target and mode, and so do --user and --passwd.
Requests ==
    {Request(p, t, o, FALSE) :
        p \in WholeDiskArgs \cup ManualArgs,
        t \in TargetInputs, o \in BOOLEAN}
    \cup {Request(p, "generic", FALSE, FALSE) : p \in LayoutArgs \cup BothArgs}
    \cup {Request(p, "generic", FALSE, TRUE) :
            p \in WholeDiskArgs \cup ManualArgs}
    \cup {WithUser(Request(p, t, FALSE, FALSE)) :
            p \in WholeDiskArgs, t \in {"generic", "void"}}
    \cup {WithAccount(Request(p, "generic", FALSE, TRUE), u, w) :
            p \in {q \in WholeDiskArgs : q.swap = NoArg},
            u \in {NoArg, a_user, meta_user}, w \in {a_passwd, meta_passwd}}

\* What the user can type at the "Type 'YES' to proceed" prompt.
TypedInputs == {"YES", "yes", ""}

\* Python's None where a widget or a dictionary entry holds no value; like
\* the empty string it is false where the code tests it.
None == ""

\* An installer started from a shell: no wizard runs.
NoWizard ==
    /\ gui = ""
    /\ os_info = [NAME |-> "", ID |-> "", ID_LIKE |-> ""]
    /\ page = 0
    /\ rad_offline = FALSE
    /\ cmb_disk = None
    /\ rad_erase = TRUE
    /\ spin_swap = 0
    /\ parts = <<>>
    /\ cmb_root = None
    /\ cmb_boot = None
    /\ cmb_swap = None
    /\ inp_user = ""
    /\ inp_pass = ""
    /\ install_data = [method |-> ""]
    /\ dry_run = FALSE
    /\ process = <<>>
    /\ txt_log = <<>>

Init ==
    /\ variant \in {"chimera.py", "main.py"}
    /\ request \in Requests
    /\ args = request
    /\ efiDir \in BOOLEAN
    \* main.py never asks for the arch-chroot helper
    /\ archChroot \in (IF variant = "chimera.py" THEN BOOLEAN ELSE {FALSE})
    \* only chimera.py with --online and target arch or debian looks for it
    /\ bootstrap \in (IF /\ variant = "chimera.py"
                          /\ request.online
                          /\ request.target \in {"arch", "debian"}
                       THEN BOOLEAN ELSE {TRUE})
    /\ uefi = FALSE
    /\ disk = NoArg
    /\ pc = "main"
    /\ stages = <<>>
    /\ cmds = <<>>
    /\ failed = <<>>
    /\ mounts = {}
    /\ populated = FALSE
    /\ fstab = <<>>
    /\ probes = <<>>
    /\ typed = <<>>
    /\ cleanups = 0
    /\ exitStatus = -1
    /\ successLogged = FALSE
    /\ installed = ""
    /\ targetBins = <<>>
    /\ arch_keyring_initialized = FALSE
    /\ machine_id = FALSE
    /\ bootKernel = "unknown"
    /\ kernelRepairs = 0
    /\ refindTool = "unseen"
    /\ NoWizard

\* A probe that reports the network reachable whatever the resolver says.
check_connection_always(resolves) == TRUE

\* check_connection: True when gethostbyname("gentoo.org") resolves, False
\* when it raises socket.gaierror.
check_connection(resolves) == resolves

\* A gate that compares the answer without regard to case.
Confirmed_anycase(answer) == answer \in {"YES", "yes"}

\* The test both safety_check functions apply to the line read at the
\* prompt: input(...) != "YES" aborts (the comparison is case-sensitive, and
\* the line is not stripped).
Confirmed(answer) == answer = "YES"

\* An exit raised from inside the try block of run(): the finally clause
\* runs cleanup() before the process ends.
ExitProcess_insideTry(status) ==
    /\ pc' = "cleanup"
    /\ exitStatus' = status

\* The process terminates without entering run().
ExitProcess(status) ==
    /\ pc' = "done"
    /\ exitStatus' = status

----------------------------------------------------------------------------
(* src/chimera.py                                                          *)

choices_c == {"arch", "gentoo", "debian", "generic", "bal"}

\* main(), up to the construction of the installer.
main_c ==
    /\ pc = "main"
    /\ variant = "chimera.py"
    /\ UNCHANGED <<env, args, uefi, disk, stages, cmds, failed, mounts,
                   populated, fstab, probes, cleanups, successLogged,
                   installed, mainOnly, gate>>
    /\ \E euid0 \in BOOLEAN :
        IF args.target \notin choices_c THEN ExitProcess(EXIT_USAGE)
        ELSE IF ~euid0 THEN ExitProcess(EXIT_FAILURE)
        ELSE IF args.disk = NoArg /\ ~(args.boot # NoArg /\ args.rootfs # NoArg)
             THEN ExitProcess(EXIT_FAILURE)
        ELSE pc' = "init" /\ exitStatus' = exitStatus

\* lsblk -no pkname <partition>: the parent disk of a partition of sda, or
\* nothing when lsblk fails.
ParentDisks(partition) == {dev_sda, NoArg}

\* ChimeraInstaller.__init__ and, as welcome() changes nothing, the entry
\* into the try block of run().
init_c ==
    /\ pc = "init"
    /\ variant = "chimera.py"
    /\ uefi' = efiDir
    /\ \E d \in (IF args.disk # NoArg THEN {args.disk}
                 ELSE IF args.rootfs = NoArg THEN {NoArg}
                 ELSE ParentDisks(args.rootfs)) : disk' = d
    /\ IF args.user # NoArg /\ args.passwd = NoArg
           THEN ExitProcess(EXIT_FAILURE)
       ELSE IF args.target = "arch" /\ args.online /\ ~bootstrap
           THEN ExitProcess(EXIT_FAILURE)
       ELSE IF args.target = "debian" /\ args.online /\ ~bootstrap
           THEN ExitProcess(EXIT_FAILURE)
       ELSE pc' = "safety_check" /\ exitStatus' = exitStatus
    /\ UNCHANGED <<env, args, stages, cmds, failed, mounts, populated, fstab,
                   probes, cleanups, successLogged, installed, mainOnly, gate>>

\* safety_check
safety_check_c ==
    /\ pc = "safety_check"
    /\ variant = "chimera.py"
    /\ stages' = Append(stages, "SafetyGate")
    /\ IF args.i_am_very_stupid
       THEN pc' = "ensure_network" /\ exitStatus' = exitStatus /\ typed' = typed
       ELSE \E answer \in TypedInputs :
              /\ typed' = Append(typed, answer)
              /\ IF ~Confirmed(answer)
                 THEN pc' = AfterSystemExit /\ exitStatus' = EXIT_FAILURE
                 ELSE pc' = "ensure_network" /\ exitStatus' = exitStatus
    /\ UNCHANGED <<env, args, uefi, disk, cmds, failed, mounts, populated,
                   fstab, probes, cleanups, successLogged, installed,
                   mainOnly>>

\* An ensure_network_logic that probes for the stage archive only.
NeedsNetwork_gentooOnly(a) == a.target = "gentoo"

\* The test of ensure_network_logic: the runs that probe the connection.
NeedsNetwork(a) == a.target = "gentoo" \/ a.online

\* ensure_network_logic: one probe; when it fails nmtui is launched if the
\* host has it, and a second probe decides.
ensure_network_logic ==
    /\ pc = "ensure_network"
    /\ variant = "chimera.py"
    /\ stages' = Append(stages, "NetworkCheck")
    /\ IF NeedsNetwork(args)
       THEN \E first \in BOOLEAN, nmtui \in BOOLEAN, second \in BOOLEAN :
              IF check_connection(first)
              THEN /\ probes' = Append(probes, first)
                   /\ cmds' = cmds
                   /\ pc' = "partition_handler" /\ exitStatus' = exitStatus
              ELSE /\ probes' = probes \o <<first, second>>
                   /\ cmds' = IF nmtui
                              THEN Append(cmds, Ask(HostCmd("NetworkCheck", "nmtui", "", NoArg)))
                              ELSE cmds
                   /\ IF check_connection(second)
                      THEN pc' = "partition_handler" /\ exitStatus' = exitStatus
                      ELSE Abort
       ELSE /\ UNCHANGED <<probes, cmds>>
            /\ pc' = "partition_handler" /\ exitStatus' = exitStatus
    /\ UNCHANGED <<env, args, uefi, disk, failed, mounts, populated, fstab,
                   cleanups, successLogged, installed, mainOnly, gate>>

\* The unmount-everything command of partition_handler and cleanup.
UmountAll(stage) == HostCmd(stage, "umount", "-R /mnt/chimera_target", NoArg)

\* mount <dev> <dir>
Mount(dev, dir) == HostCmd("Partition", "mount", dir, dev)

\* "<mount point>/boot/efi" under UEFI, "<mount point>/boot" under BIOS
BootDir(u) ==
    IF u THEN "/mnt/chimera_target/boot/efi" ELSE "/mnt/chimera_target/boot"

\* A boot partition formatted FAT32 whatever the firmware mode.
MkfsBoot_fat32(u, dev) == HostCmd("Partition", "mkfs.vfat", "-F32", dev)

\* mkfs.vfat -F32 under UEFI, mkfs.ext4 -F under BIOS
MkfsBoot(u, dev) ==
    IF u THEN HostCmd("Partition", "mkfs.vfat", "-F32", dev)
    ELSE HostCmd("Partition", "mkfs.ext4", "-F", dev)

\* The swap size in MiB as _auto_partition_disk of chimera.py computes it.
mb_size_c(swap) ==
    LET size == Upper(swap)
        mult == IF Contains(size, <<"G">>) THEN 1024 ELSE 1
    IN  ParseInt(FilterDigits(size)) * mult

\* The device-path prefix of chimera.py.
prefix_c(d) ==
    IF StartsWith(d, s_dev_nvme) \/ StartsWith(d, s_dev_mmc)
    THEN d \o <<"p">> ELSE d

\* _auto_partition_disk of chimera.py: the commands before the assignment
\* of the partition paths, the namespace after it, the commands after it.
auto_partition_disk_c(a, d, u) ==
    LET label    == IF u THEN "mklabel gpt" ELSE "mklabel msdos"
        boot_end == MiB(513)
        swap_end == MiB(513 + mb_size_c(a.swap))
        cur_end  == IF a.swap # NoArg THEN swap_end ELSE boot_end
        prefix   == prefix_c(d)
    IN  [before |->
            <<Must(HostCmd("Partition", "wipefs", "--all", d)),
              Must(HostCmd("Partition", "parted", label, d)),
              Must(MkPart(d, MiB(1), boot_end))>>
            \o (IF a.swap # NoArg THEN <<Must(MkPart(d, boot_end, swap_end))>>
                ELSE <<>>)
            \o <<Must(MkPart(d, cur_end, Percent100))>>,
         args |->
            [a EXCEPT !.boot = prefix \o <<"1">>,
                      !.swap = IF a.swap # NoArg THEN prefix \o <<"2">> ELSE a.swap,
                      !.rootfs = IF a.swap # NoArg THEN prefix \o <<"3">>
                                 ELSE prefix \o <<"2">>],
         after |->
            <<Must(HostCmd("Partition", "parted",
                           IF u THEN "set 1 esp on" ELSE "set 1 boot on", d)),
              Must(HostCmd("Partition", "partprobe", "", d))>>]

\* A partition_handler that mounts the boot partition as it finds it.
format_and_mount_c_bootAsIs(a, u) ==
    <<Must(HostCmd("Partition", "mkfs.ext4", "-F", a.rootfs)),
      Must(Mount(a.rootfs, MOUNT_POINT))>>
    \o (IF a.boot # NoArg THEN <<Must(Mount(a.boot, BootDir(u)))>> ELSE <<>>)
    \o (IF a.swap # NoArg
        THEN <<Must(HostCmd("Partition", "mkswap", "", a.swap)),
               Must(HostCmd("Partition", "swapon", "", a.swap))>>
        ELSE <<>>)

\* partition_handler of chimera.py after the optional _auto_partition_disk:
\* format and mount root, then boot, then make and enable swap.
format_and_mount_c(a, u) ==
    <<Must(HostCmd("Partition", "mkfs.ext4", "-F", a.rootfs)),
      Must(Mount(a.rootfs, MOUNT_POINT))>>
    \o (IF a.boot # NoArg
        THEN <<Must(MkfsBoot(u, a.boot)), Must(Mount(a.boot, BootDir(u)))>>
        ELSE <<>>)
    \o (IF a.swap # NoArg
        THEN <<Must(HostCmd("Partition", "mkswap", "", a.swap)),
               Must(HostCmd("Partition", "swapon", "", a.swap))>>
        ELSE <<>>)

\* A partition_handler that wipes and partitions whatever the mode.
AutoMode_always(a) == TRUE

\* The test of partition_handler on --disk: only a run given a whole disk
\* calls _auto_partition_disk.
AutoMode(a) == a.disk # NoArg

\* partition_handler of chimera.py, with the _auto_partition_disk it calls
\* when --disk was given.
partition_handler_c ==
    /\ pc = "partition_handler"
    /\ variant = "chimera.py"
    /\ stages' = Append(stages, "Partition")
    /\ LET pre  == <<May(UmountAll("Partition")),
                     May(HostCmd("Partition", "swapoff", "-a", NoArg))>>
           auto == auto_partition_disk_c(args, disk, uefi)
           head == IF AutoMode(args) THEN pre \o auto.before ELSE pre
           a2   == IF AutoMode(args) THEN auto.args ELSE args
           prog == head
                   \o (IF AutoMode(args) THEN auto.after ELSE <<>>)
                   \o format_and_mount_c(a2, uefi)
       IN  \E e \in Endings(prog) :
            /\ RunProgram(prog, e, "install_base")
            /\ args' = IF e = 0 \/ e > Len(head) THEN a2 ELSE args
            /\ mounts' = mounts \cup MountsOf(prog, e)
    /\ UNCHANGED <<env, uefi, disk, populated, fstab, probes, cleanups,
                   successLogged, installed, mainOnly, gate>>

\* How commands enter the target in chimera.py.
where_c == IF archChroot THEN "arch-chroot" ELSE "chroot"

InTarget_c(stage, line) == Cmd(stage, line, "", NoArg, NoOff, NoOff, where_c)

\* One line of the target's fstab.
FstabEntry(what, uuid, dir, fs) ==
    [what |-> what, uuid |-> uuid, dir |-> dir, fs |-> fs]

ByGenfstab == <<FstabEntry("genfstab -U", TRUE, "", "")>>

Lsblk(stage, dev) == HostCmd(stage, "lsblk", "-no UUID", dev)

\* _gen_fstab of chimera.py without genfstab: the root line is written
\* whatever lsblk answered, the boot line when a boot partition is set.
manual_fstab_c(a, u, rootUuid, bootUuid) ==
    <<FstabEntry("root", rootUuid, "/", "ext4")>>
    \o (IF a.boot # NoArg
        THEN <<FstabEntry("boot", bootUuid,
                          IF u THEN "/boot/efi" ELSE "/boot",
                          IF u THEN "vfat" ELSE "ext4")>>
        ELSE <<>>)

\* install_base of chimera.py with the strategy it selects.
install_base_c ==
    /\ pc = "install_base"
    /\ variant = "chimera.py"
    /\ stages' = Append(stages, "BaseInstall")
    /\ IF args.target = "arch" /\ args.online
       THEN \* _install_arch_pacstrap
            LET prog == <<Must(HostCmd("BaseInstall", "pacstrap", "-K", NoArg)),
                          Ask(HostCmd("BaseInstall", "genfstab", "-U", NoArg))>>
            IN  \E e \in Endings(prog) :
                 /\ RunProgram(prog, e, "setup_chroot_mounts")
                 /\ populated' = (e = 0)
                 /\ fstab' = IF e = 0 THEN ByGenfstab ELSE fstab
       ELSE IF args.target = "debian" /\ args.online
       THEN \* _install_debian_debootstrap and _gen_fstab
            \E genfstab \in BOOLEAN, rootUuid \in BOOLEAN, bootUuid \in BOOLEAN :
              LET query == <<Ask(Lsblk("BaseInstall", args.rootfs))>>
                           \o (IF args.boot # NoArg
                               THEN <<Ask(Lsblk("BaseInstall", args.boot))>>
                               ELSE <<>>)
                  prog  == <<Must(HostCmd("BaseInstall", "debootstrap", "--arch amd64", NoArg))>>
                           \o (IF genfstab
                               THEN <<Ask(HostCmd("BaseInstall", "genfstab", "-U", NoArg))>>
                               ELSE query)
              IN  \E e \in Endings(prog) :
                   /\ RunProgram(prog, e, "setup_chroot_mounts")
                   /\ populated' = (e = 0)
                   /\ fstab' = IF e # 0 THEN fstab
                               ELSE IF genfstab THEN ByGenfstab
                               ELSE manual_fstab_c(args, uefi, rootUuid, bootUuid)
       ELSE IF args.target = "gentoo"
       THEN \* pass
            /\ pc' = "setup_chroot_mounts"
            /\ UNCHANGED <<cmds, failed, exitStatus, populated, fstab>>
       ELSE \* subprocess.run(["rsync", ...], check=True)
            LET prog == <<Must(HostCmd("BaseInstall", "rsync", "-axHAWXS / /mnt/chimera_target", NoArg))>>
            IN  \E e \in Endings(prog) :
                 /\ RunProgram(prog, e, "setup_chroot_mounts")
                 /\ populated' = (e = 0)
                 /\ fstab' = fstab
    /\ UNCHANGED <<env, args, uefi, disk, mounts, probes, cleanups,
                   successLogged, installed, mainOnly, gate>>

\* The mount commands of setup_chroot_mounts of chimera.py.
bind_c ==
    <<Soft(HostCmd("MountPseudo", "mount", "--rbind /dev", NoArg)),
      Soft(HostCmd("MountPseudo", "mount", "--make-rslave dev", NoArg)),
      Soft(HostCmd("MountPseudo", "mount", "--rbind /proc", NoArg)),
      Soft(HostCmd("MountPseudo", "mount", "--make-rslave proc", NoArg)),
      Soft(HostCmd("MountPseudo", "mount", "--rbind /sys", NoArg)),
      Soft(HostCmd("MountPseudo", "mount", "--make-rslave sys", NoArg))>>

\* run() of chimera.py between install_base and configure_system: the
\* guarded call of setup_chroot_mounts, which ends by copying resolv.conf
\* into the target's /etc.
setup_chroot_mounts_c ==
    /\ pc = "setup_chroot_mounts"
    /\ variant = "chimera.py"
    /\ IF (args.target \notin {"arch", "debian"} \/ ~args.online) /\ ~archChroot
       THEN /\ stages' = Append(stages, "MountPseudo")
            /\ cmds' = cmds \o Issued(bind_c, 0)
            /\ IF populated
               THEN pc' = "configure_system" /\ exitStatus' = exitStatus
               ELSE Abort
       ELSE /\ pc' = "configure_system"
            /\ UNCHANGED <<stages, cmds, exitStatus>>
    /\ UNCHANGED <<env, args, uefi, disk, failed, mounts, populated, fstab,
                   probes, cleanups, successLogged, installed, mainOnly, gate>>

\* The run_cmd calls of configure_system of chimera.py for the target
\* (no --timezone given).
configure_program_c(a) ==
    IF a.target \in {"arch", "bal"}
    THEN <<Must(InTarget_c("Configure", "echo 'en_US.UTF-8 UTF-8' > /etc/locale.gen")),
           Must(InTarget_c("Configure", "locale-gen")),
           Soft(InTarget_c("Configure", "systemctl enable NetworkManager"))>>
         \o (IF ~a.online \/ a.target = "bal"
             THEN <<Must(InTarget_c("Configure", "mkinitcpio -P"))>>
             ELSE <<>>)
         \o (IF a.target = "bal"
             THEN <<Soft(InTarget_c("Configure", "systemctl enable sddm")),
                    Must(InTarget_c("Configure", "bash /root/SilentSDDM/install.sh"))>>
             ELSE <<>>)
    ELSE IF a.target = "debian"
    THEN (IF ~archChroot THEN bind_c ELSE <<>>)
         \o <<Must(InTarget_c("Configure", "apt-get update")),
              Must(InTarget_c("Configure", "apt-get install -y linux-image-amd64 ...")),
              Must(InTarget_c("Configure", "echo 'en_US.UTF-8 UTF-8' > /etc/locale.gen")),
              Must(InTarget_c("Configure", "locale-gen"))>>
    ELSE <<>>

\* configure_system of chimera.py.  Writing /etc/hostname raises when the
\* target has no /etc; for debian the function calls setup_chroot_mounts
\* itself when the host has no arch-chroot.
configure_system_c ==
    /\ pc = "configure_system"
    /\ variant = "chimera.py"
    /\ IF ~populated
       THEN /\ stages' = Append(stages, "Configure")
            /\ Abort
            /\ UNCHANGED <<cmds, failed>>
       ELSE /\ stages' = IF args.target = "debian" /\ ~archChroot
                         THEN stages \o <<"Configure", "MountPseudo">>
                         ELSE Append(stages, "Configure")
            /\ LET prog == configure_program_c(args)
               IN  \E e \in Endings(prog) : RunProgram(prog, e, "setup_users")
    /\ UNCHANGED <<env, args, uefi, disk, mounts, populated, fstab, probes,
                   cleanups, successLogged, installed, mainOnly, gate>>

\* run_cmd(f"...", chroot=True) with a string: cmd_str is the string as it
\* is, and it becomes the argument of /bin/sh -c inside the target.
ShLine_c(stage, template, line) ==
    [InTarget_c(stage, template) EXCEPT !.line = line]

\* The run_cmd calls of setup_users for the request a.
setup_users_program(a) ==
    LET pwd  == a.passwd
        user == a.user
    IN  (IF pwd # NoArg
         THEN <<Must(ShLine_c("Configure", "echo 'root:{pwd}' | chpasswd",
                     <<"e", "c", "h", "o", " ", "'", "r", "o", "o", "t", ":">> \o pwd
                     \o <<"'", " ", "|", " ", "c", "h", "p", "a", "s", "s", "w", "d">>))>>
         ELSE <<Must(InTarget_c("Configure", "echo 'root:root' | chpasswd"))>>)
        \o (IF user # NoArg
            THEN <<Soft(ShLine_c("Configure", "useradd -m -G wheel -s /bin/bash {user}",
                        <<"u", "s", "e", "r", "a", "d", "d", " ", "-", "m", " ", "-", "G", " ", "w", "h", "e", "e", "l", " ", "-", "s", " ", "/", "b", "i", "n", "/", "b", "a", "s", "h", " ">>
                        \o user))>>
                 \o (IF pwd # NoArg
                     THEN <<Must(ShLine_c("Configure", "echo '{user}:{pwd}' | chpasswd",
                                 <<"e", "c", "h", "o", " ", "'">> \o user \o <<":">> \o pwd
                                 \o <<"'", " ", "|", " ", "c", "h", "p", "a", "s", "s", "w", "d">>))>>
                     ELSE <<>>)
                 \o <<Soft(InTarget_c("Configure", "sed -i 's/^# %wheel .../' /etc/sudoers"))>>
            ELSE <<>>)

\* The run_cmd calls of install_bal_extras for the request a.
install_bal_extras_program(a) ==
    IF a.target = "bal" /\ a.online /\ a.user # NoArg
    THEN <<Must(InTarget_c("Configure", "pacman-key --init")),
           Must(InTarget_c("Configure", "pacman-key --populate"))>>
    ELSE <<>>

\* setup_users, install_bal_extras and run_custom_scripts of chimera.py for
\* a request without --run: the last one returns at once.
setup_users_c ==
    /\ pc = "setup_users"
    /\ variant = "chimera.py"
    /\ LET prog == setup_users_program(args) \o install_bal_extras_program(args)
       IN  \E e \in Endings(prog) : RunProgram(prog, e, "install_bootloader")
    /\ UNCHANGED <<env, args, uefi, disk, stages, mounts, populated, fstab,
                   probes, cleanups, successLogged, installed, mainOnly, gate>>

\* install_bootloader of chimera.py.  Outside debian the command is an
\* argument list that ends with self.disk under BIOS; quoting it raises
\* when self.disk is None.
install_bootloader_c ==
    /\ pc = "install_bootloader"
    /\ variant = "chimera.py"
    /\ stages' = Append(stages, "Bootloader")
    /\ LET grub == IF uefi
                   THEN Cmd("Bootloader", "grub-install", "--target=x86_64-efi --efi-directory=/boot/efi",
                            NoArg, NoOff, NoOff, where_c)
                   ELSE Cmd("Bootloader", "grub-install", "--target=i386-pc",
                            disk, NoOff, NoOff, where_c)
           prog == IF args.target = "debian"
                   THEN <<Must(grub), Must(InTarget_c("Bootloader", "update-grub"))>>
                   ELSE <<Must(grub),
                          Must(InTarget_c("Bootloader", "grub-mkconfig -o /boot/grub/grub.cfg"))>>
       IN  IF args.target # "debian" /\ ~uefi /\ disk = NoArg
           THEN Abort /\ UNCHANGED <<cmds, failed, installed>>
           ELSE \E e \in Endings(prog) :
                  /\ RunProgram(prog, e, "finalize")
                  /\ installed' = IF e = 1 THEN installed ELSE "grub"
    /\ UNCHANGED <<env, args, uefi, disk, mounts, populated, fstab, probes,
                   cleanups, successLogged, mainOnly, gate>>

\* finalize of chimera.py and the success message that ends the try block.
finalize_c ==
    /\ pc = "finalize"
    /\ variant = "chimera.py"
    /\ stages' = Append(stages, "Finalize")
    /\ LET prog == <<Soft(InTarget_c("Finalize", "systemd-machine-id-setup"))>>
       IN  \E e \in Endings(prog) : RunProgram(prog, e, "cleanup")
    /\ successLogged' = TRUE
    /\ UNCHANGED <<env, args, uefi, disk, mounts, populated, fstab, probes,
                   cleanups, installed, mainOnly, gate>>

\* A finally clause that drops a pending exception or exit: the process
\* ends with status 0 whatever happened in the try block.
FinalStatus_swallowed == IF exitStatus = EXIT_FAILURE THEN 0 ELSE 0

\* The process ends after the finally clause: with the pending exit status,
\* or with 0 when the try block ran to its end.
FinalStatus == IF exitStatus = -1 THEN 0 ELSE exitStatus

\* The mount points of `m' that umount -R leaves mounted when those of
\* `busy' cannot be unmounted: a busy mount point keeps itself mounted and,
\* below the target's root, keeps the root mounted.
Remaining(m, busy) ==
    {d \in m : d \in busy \/ (d = MOUNT_POINT /\ m \cap busy # {})}

\* umount -R <mount point>: zero exit status when something was mounted and
\* all of it is unmounted.
umount_R(m, busy) ==
    [rc0    |-> m # {} /\ Remaining(m, busy) = {},
     mounts |-> Remaining(m, busy)]

\* The run_cmd calls of cleanup: of chimera.py, and of main.py given
\* whether the target has a machine-id.
cleanup_program(v, had) ==
    IF v = "chimera.py" THEN <<May(UmountAll("Cleanup"))>>
    ELSE (IF had THEN <<>>
          ELSE <<May(Cmd("Cleanup", "systemd-machine-id-setup", "", NoArg,
                         NoOff, NoOff, "chroot"))>>)
         \o <<May(UmountAll("Cleanup"))>>

\* One invocation of cleanup() of back end v: with m mounted, the target
\* tree present or not (pop), its machine-id present or not (had), given
\* whether systemd-machine-id-setup would succeed inside a present target
\* (setup_ok) and which mount points are busy.  The commands issued, the
\* call that raised to the caller (0: none), and what is left.
cleanup(v, m, pop, had, setup_ok, busy) ==
    LET prog     == cleanup_program(v, had)
        inTarget == pop /\ MOUNT_POINT \in m
        wrote    == v = "main.py" /\ ~had /\ inTarget /\ setup_ok
        rc0s     == [i \in 1..Len(prog) |->
                        IF prog[i].tool = "umount" THEN umount_R(m, busy).rc0
                        ELSE wrote]
        raising  == {i \in 1..Len(prog) :
                        run_cmd(rc0s[i], prog[i].check, prog[i].ignore) = "raise"}
        e        == IF raising = {} THEN 0
                    ELSE CHOOSE i \in raising : \A j \in raising : i <= j
    IN  [issued     |-> Issued(prog, e),
         raised     |-> e,
         mounts     |-> IF e = 0 THEN umount_R(m, busy).mounts ELSE m,
         machine_id |-> (had /\ inTarget) \/ wrote]

\* cleanup of chimera.py: the recursive unmount, whose status is ignored.
cleanup_c ==
    /\ pc = "cleanup"
    /\ variant = "chimera.py"
    /\ stages' = Append(stages, "Cleanup")
    /\ cleanups' = cleanups + 1
    /\ \E busy \in SUBSET mounts :
        LET r == cleanup(variant, mounts, populated, FALSE, FALSE, busy)
        IN  /\ cmds' = cmds \o r.issued
            /\ mounts' = r.mounts
            /\ exitStatus' = IF r.raised = 0 THEN FinalStatus ELSE EXIT_FAILURE
    /\ pc' = "done"
    /\ UNCHANGED <<env, args, uefi, disk, failed, populated, fstab, probes,
                   successLogged, installed, mainOnly, gate>>

----------------------------------------------------------------------------
(* src/main.py                                                             *)

choices_m == {"arch", "gentoo", "debian", "void", "generic"}

\* main() of main.py.  --boot and --rootfs are added to an argument group
\* nested in the required mutually exclusive group, which therefore holds
\* --disk alone: argparse (before Python 3.14) demands --disk and accepts
\* --boot and --rootfs beside it; from Python 3.14 on the nesting raises
\* ValueError while the parser is built.  The parser has no --user and no
\* --passwd: given either, it stops with a usage error.
main_m ==
    /\ pc = "main"
    /\ variant = "main.py"
    /\ UNCHANGED <<env, args, uefi, disk, stages, cmds, failed, mounts,
                   populated, fstab, probes, cleanups, successLogged,
                   installed, mainOnly, gate>>
    /\ \E nesting \in BOOLEAN, euid0 \in BOOLEAN :
        IF ~nesting THEN ExitProcess(EXIT_FAILURE)
        ELSE IF args.disk = NoArg THEN ExitProcess(EXIT_USAGE)
        ELSE IF args.target \notin choices_m THEN ExitProcess(EXIT_USAGE)
        ELSE IF args.user # NoArg \/ args.passwd # NoArg
             THEN ExitProcess(EXIT_USAGE)
        ELSE IF args.disk = NoArg /\ (args.boot = NoArg \/ args.rootfs = NoArg)
             THEN ExitProcess(EXIT_USAGE)
        ELSE IF ~euid0 THEN ExitProcess(EXIT_FAILURE)
        ELSE pc' = "init" /\ exitStatus' = exitStatus

\* ChimeraInstaller.__init__ of main.py and the entry into run(); without
\* --disk the parent disk comes from lsblk, and a failure of lsblk raises
\* outside the try block.
init_m ==
    /\ pc = "init"
    /\ variant = "main.py"
    /\ uefi' = efiDir
    /\ arch_keyring_initialized' = FALSE
    /\ \E d \in (IF args.disk # NoArg THEN {args.disk}
                 ELSE ParentDisks(args.rootfs)) :
        /\ disk' = d
        /\ IF d = NoArg THEN ExitProcess(EXIT_FAILURE)
           ELSE pc' = "safety_check" /\ exitStatus' = exitStatus
    /\ UNCHANGED <<env, args, stages, cmds, failed, mounts, populated, fstab,
                   probes, cleanups, successLogged, installed, targetBins,
                   machine_id, bootKernel, kernelRepairs, refindTool, gate>>

\* safety_check of main.py, and the guard of run() on ensure_network.
safety_check_m ==
    /\ pc = "safety_check"
    /\ variant = "main.py"
    /\ stages' = Append(stages, "SafetyGate")
    /\ LET next == IF args.target # "generic"
                      /\ (args.target = "gentoo" \/ args.online)
                   THEN "ensure_network" ELSE "partition_handler"
       IN  IF args.i_am_very_stupid
           THEN pc' = next /\ exitStatus' = exitStatus /\ typed' = typed
           ELSE \E answer \in TypedInputs :
                  /\ typed' = Append(typed, answer)
                  /\ IF ~Confirmed(answer)
                     THEN pc' = AfterSystemExit /\ exitStatus' = EXIT_FAILURE
                     ELSE pc' = next /\ exitStatus' = exitStatus
    /\ UNCHANGED <<env, args, uefi, disk, cmds, failed, mounts, populated,
                   fstab, probes, cleanups, successLogged, installed,
                   mainOnly>>

\* ensure_network of main.py: without nmtui the user is asked to connect
\* by hand, and the second probe decides either way.
ensure_network ==
    /\ pc = "ensure_network"
    /\ variant = "main.py"
    /\ stages' = Append(stages, "NetworkCheck")
    /\ \E first \in BOOLEAN, nmtui \in BOOLEAN, second \in BOOLEAN :
          IF check_connection(first)
          THEN /\ probes' = Append(probes, first)
               /\ cmds' = cmds
               /\ pc' = "partition_handler" /\ exitStatus' = exitStatus
          ELSE /\ probes' = probes \o <<first, second>>
               /\ cmds' = IF nmtui
                          THEN Append(cmds, Ask(HostCmd("NetworkCheck", "nmtui", "", NoArg)))
                          ELSE cmds
               /\ IF check_connection(second)
                  THEN pc' = "partition_handler" /\ exitStatus' = exitStatus
                  ELSE Abort
    /\ UNCHANGED <<env, args, uefi, disk, failed, mounts, populated, fstab,
                   cleanups, successLogged, installed, mainOnly, gate>>

\* int(numfmt --from=auto <size>) // 1024 // 1024 of main.py.  numfmt reads
\* G as 10^9 and M as 10^6 bytes; the two floor divisions equal one by 2^20,
\* and n*10^9 / 2^20 = n*5^9 / 2^11, n*10^6 / 2^20 = n*5^6 / 2^14.
swap_size_mb_m(swap) ==
    LET n == ParseInt(FilterDigits(swap))
    IN  IF Contains(swap, <<"G">>) THEN (n * 1953125) \div 2048
        ELSE (n * 15625) \div 16384

\* The partition suffix of main.py.
p_suffix_m(d) ==
    IF Contains(d, s_nvme) \/ Contains(d, s_mmc) THEN <<"p">> ELSE <<>>

\* _auto_partition_disk of main.py: the commands before the assignment of
\* the partition paths, the namespace after it, the commands after it.
\* With a swap size the function issues three partition-creation commands
\* for the swap partition, one after the other.
auto_partition_disk_m(a, d, u) ==
    LET label       == IF u THEN "mklabel gpt" ELSE "mklabel msdos"
        boot_end    == MiB(513)
        swap_end_mb == 513 + swap_size_mb_m(a.swap)
        cur_end     == IF a.swap # NoArg THEN MiB(swap_end_mb) ELSE boot_end
        sfx         == p_suffix_m(d)
    IN  [before |->
            <<Must(HostCmd("Partition", "wipefs", "--all", d)),
              Must(HostCmd("Partition", "parted", label, d)),
              Must(MkPart(d, MiB(1), boot_end))>>
            \o (IF a.swap # NoArg
                THEN <<Must(MkPart(d, boot_end, CalcExpr)),
                       Must(Cmd("Partition", "parted", "mkpart primary linux-swap",
                                d, boot_end, ShellExpr, "host")),
                       Must(HostCmd("Partition", "numfmt", "--from=auto", a.swap)),
                       Must(MkPart(d, MiB(513), MiB(swap_end_mb)))>>
                ELSE <<>>)
            \o <<Must(MkPart(d, cur_end, Percent100)),
                 Must(HostCmd("Partition", "parted",
                              IF u THEN "set 1 esp on" ELSE "set 1 boot on", d)),
                 Must(HostCmd("Partition", "partprobe", "", d))>>,
         args |->
            [a EXCEPT !.boot = d \o sfx \o <<"1">>,
                      !.swap = IF a.swap # NoArg THEN d \o sfx \o <<"2">> ELSE a.swap,
                      !.rootfs = IF a.swap # NoArg THEN d \o sfx \o <<"3">>
                                 ELSE d \o sfx \o <<"2">>],
         after |->
            <<Must(MkfsBoot(u, d \o sfx \o <<"1">>)),
              Must(HostCmd("Partition", "sync", "", NoArg))>>]

\* partition_handler of main.py after the optional _auto_partition_disk:
\* swap first, then root is formatted and mounted, then boot is mounted.
format_and_mount_m(a, u) ==
    (IF a.swap # NoArg
     THEN <<May(HostCmd("Partition", "swapoff", "", a.swap)),
            Must(HostCmd("Partition", "mkswap", "", a.swap)),
            Must(HostCmd("Partition", "swapon", "", a.swap))>>
     ELSE <<>>)
    \o <<Must(HostCmd("Partition", "mkfs.ext4", "-F", a.rootfs)),
         Must(Mount(a.rootfs, MOUNT_POINT))>>
    \o (IF a.boot # NoArg THEN <<Must(Mount(a.boot, BootDir(u)))>> ELSE <<>>)

\* partition_handler of main.py, with the _auto_partition_disk it calls
\* when --disk was given.
partition_handler_m ==
    /\ pc = "partition_handler"
    /\ variant = "main.py"
    /\ stages' = Append(stages, "Partition")
    /\ LET pre  == <<May(UmountAll("Partition"))>>
           auto == auto_partition_disk_m(args, disk, uefi)
           head == IF args.disk # NoArg THEN pre \o auto.before ELSE pre
           a2   == IF args.disk # NoArg THEN auto.args ELSE args
           prog == head
                   \o (IF args.disk # NoArg THEN auto.after ELSE <<>>)
                   \o format_and_mount_m(a2, uefi)
       IN  \E e \in Endings(prog) :
            /\ RunProgram(prog, e, "install_base")
            /\ args' = IF e = 0 \/ e > Len(head) THEN a2 ELSE args
            /\ mounts' = mounts \cup MountsOf(prog, e)
    /\ UNCHANGED <<env, uefi, disk, populated, fstab, probes, cleanups,
                   successLogged, installed, mainOnly, gate>>

\* run_cmd(..., chroot=True) of main.py always enters through chroot.
InTarget_m(stage, line) == Cmd(stage, line, "", NoArg, NoOff, NoOff, "chroot")

\* A step of _install_gentoo_stage3 that is no subprocess: urllib.
Fetch(what) == Cmd("BaseInstall", "urllib.request", what, NoArg, NoOff, NoOff, "python")

\* install_base of main.py: the stage archive for gentoo, the copy of the
\* live system for every other target.  The status of rsync is not looked
\* at, so after a failed copy the target may or may not hold an /etc.
install_base_m ==
    /\ pc = "install_base"
    /\ variant = "main.py"
    /\ stages' = Append(stages, "BaseInstall")
    /\ IF args.target = "gentoo"
       THEN LET prog == <<Must(Fetch("urlopen latest-stage3.txt")),
                          Must(Fetch("urlretrieve stage3.tar.xz")),
                          Must(HostCmd("BaseInstall", "tar", "xpvf stage3.tar.xz", NoArg))>>
            IN  \E e \in Endings(prog) :
                 /\ RunProgram(prog, e, "setup_chroot_mounts")
                 /\ populated' = (e = 0)
       ELSE LET prog == <<Ask(HostCmd("BaseInstall", "rsync", "-axHAWXS / /mnt/chimera_target", NoArg))>>
            IN  /\ \E e \in Endings(prog) : RunProgram(prog, e, "setup_chroot_mounts")
                /\ \E rc0 \in BOOLEAN, partial \in BOOLEAN :
                     populated' = IF rc0 THEN TRUE ELSE partial
    /\ UNCHANGED <<env, args, uefi, disk, mounts, fstab, probes, cleanups,
                   successLogged, installed, mainOnly, gate>>

\* The mount commands of setup_chroot_mounts of main.py.
bind_m ==
    <<Must(HostCmd("MountPseudo", "mount", "--rbind /dev", NoArg)),
      Must(HostCmd("MountPseudo", "mount", "--make-rslave dev", NoArg)),
      Must(HostCmd("MountPseudo", "mount", "--rbind /proc", NoArg)),
      Must(HostCmd("MountPseudo", "mount", "--make-rslave proc", NoArg)),
      Must(HostCmd("MountPseudo", "mount", "--rbind /sys", NoArg)),
      Must(HostCmd("MountPseudo", "mount", "--make-rslave sys", NoArg))>>

\* setup_chroot_mounts of main.py; copying resolv.conf raises when the
\* target has no /etc.
setup_chroot_mounts_m ==
    /\ pc = "setup_chroot_mounts"
    /\ variant = "main.py"
    /\ stages' = Append(stages, "MountPseudo")
    /\ \E e \in Endings(bind_m) :
         IF e = 0 /\ args.target # "generic" /\ ~populated
         THEN /\ cmds' = cmds \o Issued(bind_m, 0)
              /\ failed' = failed
              /\ Abort
         ELSE RunProgram(bind_m, e, "configure_system")
    /\ UNCHANGED <<env, args, uefi, disk, mounts, populated, fstab, probes,
                   cleanups, successLogged, installed, mainOnly, gate>>

\* What the code can find: pacman wins over apt, apt over xbps-install.
PkgSets == {{}, {"pacman"}, {"apt", "xbps-install"}, {"xbps-install"}}

\* The package manager the if / elif chains of main.py settle on.
PkgManager(bins) ==
    IF "pacman" \in bins THEN "pacman"
    ELSE IF "apt" \in bins THEN "apt"
    ELSE IF "xbps-install" \in bins THEN "xbps-install"
    ELSE ""

\* A keyring initialization that does not look at the flag.
initialize_arch_keyring_always(stage, done) ==
    <<Must(InTarget_m(stage, "pacman-key --init")),
      Must(InTarget_m(stage, "pacman-key --populate archlinux"))>>

\* _initialize_arch_keyring: nothing once the flag is set.
initialize_arch_keyring(stage, done) ==
    IF done THEN <<>>
    ELSE <<Must(InTarget_m(stage, "pacman-key --init")),
           Must(InTarget_m(stage, "pacman-key --populate archlinux"))>>

\* _gen_fstab of main.py: the commands, whether it raises after them, and
\* the lines it writes otherwise.
gen_fstab_m(a, u, pop, genfstab, rootUuid, bootUuid, swapUuid) ==
    IF genfstab
    THEN [prog   |-> IF pop
                     THEN <<Must(HostCmd("Configure", "genfstab", "-U", NoArg))>>
                     ELSE <<>>,
          raises |-> ~pop,
          fstab  |-> ByGenfstab]
    ELSE [prog   |-> <<Ask(Lsblk("Configure", a.rootfs))>>
                     \o (IF rootUuid /\ pop /\ a.boot # NoArg
                         THEN <<Ask(Lsblk("Configure", a.boot))>> ELSE <<>>)
                     \o (IF rootUuid /\ pop /\ a.swap # NoArg
                         THEN <<Ask(Lsblk("Configure", a.swap))>> ELSE <<>>),
          raises |-> ~rootUuid \/ ~pop,
          fstab  |-> <<FstabEntry("root", TRUE, "/", "ext4")>>
                     \o (IF a.boot # NoArg /\ bootUuid
                         THEN <<FstabEntry("boot", TRUE,
                                           IF u THEN "/boot/efi" ELSE "/boot",
                                           IF u THEN "vfat" ELSE "ext4")>>
                         ELSE <<>>)
                     \o (IF a.swap # NoArg /\ swapUuid
                         THEN <<FstabEntry("swap", TRUE, "none", "swap")>>
                         ELSE <<>>)]

\* configure_system of main.py after _gen_fstab, up to the kernel check:
\* the keyring calls (if any) and the update calls.
update_program_m(a, u, pm, keyring) ==
    IF a.target = "generic" THEN [keys |-> <<>>, rest |-> <<>>]
    ELSE IF a.target = "gentoo"
    THEN [keys |-> <<>>,
          rest |-> <<Must(InTarget_m("Configure", "emerge-webrsync")),
                     Must(InTarget_m("Configure", "emerge --noreplace sys-kernel/gentoo-kernel-bin ..."))>>
                   \o (IF u THEN <<Must(InTarget_m("Configure", "emerge --noreplace sys-boot/refind"))>>
                       ELSE <<>>)]
    ELSE IF ~a.online THEN [keys |-> <<>>, rest |-> <<>>]
    ELSE IF pm = "pacman"
    THEN [keys |-> initialize_arch_keyring("Configure", keyring),
          rest |-> <<Must(InTarget_m("Configure", "pacman -Syu --noconfirm"))>>]
    ELSE IF pm = "apt"
    THEN [keys |-> <<>>,
          rest |-> <<Must(InTarget_m("Configure", "apt update && apt upgrade -y"))>>]
    ELSE IF pm = "xbps-install"
    THEN [keys |-> <<>>,
          rest |-> <<Must(InTarget_m("Configure", "xbps-install -Suy"))>>]
    ELSE [keys |-> <<>>, rest |-> <<>>]

\* _emergency_install_kernel
emergency_install_kernel(pm, keyring) ==
    IF pm = "pacman"
    THEN [keys |-> initialize_arch_keyring("Configure", keyring),
          rest |-> <<Must(InTarget_m("Configure", "pacman -S --noconfirm linux linux-firmware"))>>]
    ELSE IF pm = "apt"
    THEN [keys |-> <<>>,
          rest |-> <<Must(InTarget_m("Configure", "apt install -y linux-image-amd64"))>>]
    ELSE [keys |-> <<>>, rest |-> <<>>]

\* configure_system of main.py: _gen_fstab; nothing more for generic; the
\* update calls; and, unless a kernel image is found or the network is
\* unreachable, _emergency_install_kernel.
configure_system_m ==
    /\ pc = "configure_system"
    /\ variant = "main.py"
    /\ stages' = Append(stages, "Configure")
    /\ \E genfstab \in BOOLEAN, rootUuid \in BOOLEAN, bootUuid \in BOOLEAN,
          swapUuid \in BOOLEAN, bins \in (IF populated THEN PkgSets ELSE {{}}),
          kernel \in BOOLEAN, net \in BOOLEAN :
        LET fs   == gen_fstab_m(args, uefi, populated, genfstab, rootUuid,
                                bootUuid, swapUuid)
            pm   == PkgManager(bins)
            upd  == update_program_m(args, uefi, pm, arch_keyring_initialized)
            look == args.target # "generic" /\ ~kernel
            emer == IF look /\ check_connection(net)
                    THEN emergency_install_kernel(pm,
                            arch_keyring_initialized \/ upd.keys # <<>>)
                    ELSE [keys |-> <<>>, rest |-> <<>>]
            p1   == fs.prog \o upd.keys
            p2   == p1 \o upd.rest
            p3   == p2 \o emer.keys
            prog == p3 \o emer.rest
        IN  IF fs.raises
            THEN /\ cmds' = cmds \o Issued(fs.prog, 0)
                 /\ Abort
                 /\ UNCHANGED <<failed, fstab, probes, targetBins,
                                arch_keyring_initialized, bootKernel,
                                kernelRepairs>>
            ELSE \E e \in Endings(prog) :
                  /\ RunProgram(prog, e, "install_bootloader")
                  /\ bootKernel' = IF e = 0 \/ e > Len(p2)
                                   THEN (IF kernel THEN "present" ELSE "absent")
                                   ELSE bootKernel
                  /\ kernelRepairs' =
                        IF (e = 0 \/ e > Len(p2)) /\ look /\ check_connection(net)
                        THEN kernelRepairs + 1 ELSE kernelRepairs
                  /\ fstab' = IF e = 0 \/ e > Len(fs.prog) THEN fs.fstab ELSE fstab
                  /\ targetBins' =
                        IF \/ /\ e = 0 \/ e > Len(fs.prog)
                              /\ args.target \notin {"generic", "gentoo"}
                              /\ args.online
                           \/ /\ e = 0 \/ e > Len(p2)
                              /\ look /\ check_connection(net)
                        THEN <<bins>> ELSE targetBins
                  /\ probes' = IF (e = 0 \/ e > Len(p2)) /\ look
                               THEN Append(probes, net) ELSE probes
                  /\ arch_keyring_initialized' =
                        \/ arch_keyring_initialized
                        \/ upd.keys # <<>> /\ (e = 0 \/ e > Len(p1))
                        \/ emer.keys # <<>> /\ (e = 0 \/ e > Len(p3))
    /\ UNCHANGED <<env, args, uefi, disk, mounts, populated, cleanups,
                   successLogged, installed, machine_id, refindTool, gate>>

\* _emergency_install_boottools
emergency_install_boottools(pm, keyring) ==
    IF pm = "pacman"
    THEN [keys |-> initialize_arch_keyring("Bootloader", keyring),
          rest |-> <<Must(InTarget_m("Bootloader", "pacman -S --noconfirm grub efibootmgr"))>>]
    ELSE IF pm = "apt"
    THEN [keys |-> <<>>,
          rest |-> <<Must(InTarget_m("Bootloader", "apt install -y grub-efi-amd64 efibootmgr"))>>]
    ELSE [keys |-> <<>>, rest |-> <<>>]

\* The grub-install command of main.py.
grub_install_m(u, d) ==
    IF u
    THEN Cmd("Bootloader", "grub-install", "--target=x86_64-efi --efi-directory=/boot/efi",
             NoArg, NoOff, NoOff, "chroot")
    ELSE Cmd("Bootloader", "grub-install", "--target=i386-pc", d, NoOff, NoOff, "chroot")

\* An install_bootloader that tries the secondary boot manager whatever
\* the firmware mode.
TryRefind_anyFirmware(u, present) == present

\* install_bootloader: `if self.uefi and os.path.exists(.../refind-install)'
TryRefind(u, present) == u /\ present

\* install_bootloader of main.py, then the success message of run():
\* refind-install first under UEFI when the target has it, grub-install
\* unless that succeeded, grub-mkconfig after a successful grub-install.
install_bootloader_m ==
    /\ pc = "install_bootloader"
    /\ variant = "main.py"
    /\ stages' = Append(stages, "Bootloader")
    /\ \E bins \in (IF targetBins # <<>> THEN {targetBins[1]}
                    ELSE IF populated THEN PkgSets ELSE {{}}),
          refind \in BOOLEAN, refindOk \in BOOLEAN, grubOk \in BOOLEAN :
        LET tools == IF args.target \notin {"generic", "gentoo"} /\ args.online
                     THEN emergency_install_boottools(PkgManager(bins),
                                                      arch_keyring_initialized)
                     ELSE [keys |-> <<>>, rest |-> <<>>]
            p1    == tools.keys \o tools.rest
            present == refind /\ populated
            try   == TryRefind(uefi, present)
            byRefind == try /\ run_cmd(refindOk, FALSE, FALSE) = "True"
            byGrub   == ~byRefind /\ run_cmd(grubOk, FALSE, FALSE) = "True"
            prog  == p1
                     \o (IF try THEN <<Ask(InTarget_m("Bootloader", "refind-install"))>>
                         ELSE <<>>)
                     \o (IF ~byRefind THEN <<Ask(grub_install_m(uefi, disk))>> ELSE <<>>)
                     \o (IF byGrub
                         THEN <<Must(InTarget_m("Bootloader", "grub-mkconfig -o /boot/grub/grub.cfg"))>>
                         ELSE <<>>)
        IN  \E e \in Endings(prog) :
              /\ RunProgram(prog, e, "cleanup")
              /\ installed' = IF e # 0 /\ e <= Len(p1) THEN installed
                              ELSE IF byRefind THEN "refind"
                              ELSE IF byGrub THEN "grub"
                              ELSE installed
              /\ refindTool' = IF e # 0 /\ e <= Len(p1) THEN refindTool
                               ELSE IF ~uefi THEN refindTool
                               ELSE IF present THEN "present" ELSE "absent"
              /\ successLogged' = (e = 0)
              /\ targetBins' =
                    IF args.target \notin {"generic", "gentoo"} /\ args.online
                    THEN <<bins>> ELSE targetBins
              /\ arch_keyring_initialized' =
                    \/ arch_keyring_initialized
                    \/ tools.keys # <<>> /\ (e = 0 \/ e > Len(tools.keys))
    /\ UNCHANGED <<env, args, uefi, disk, mounts, populated, fstab, probes,
                   cleanups, machine_id, bootKernel, kernelRepairs, gate>>

\* cleanup of main.py: systemd-machine-id-setup inside the target unless
\* the target has a machine-id, then the recursive unmount; both statuses
\* are ignored.
cleanup_m ==
    /\ pc = "cleanup"
    /\ variant = "main.py"
    /\ stages' = Append(stages, "Cleanup")
    /\ cleanups' = cleanups + 1
    /\ \E had \in (IF populated /\ MOUNT_POINT \in mounts THEN BOOLEAN
                   ELSE {FALSE}),
          setup_ok \in BOOLEAN, busy \in SUBSET mounts :
        LET r == cleanup(variant, mounts, populated, had, setup_ok, busy)
        IN  /\ cmds' = cmds \o r.issued
            /\ mounts' = r.mounts
            /\ machine_id' = r.machine_id
            /\ exitStatus' = IF r.raised = 0 THEN FinalStatus ELSE EXIT_FAILURE
    /\ pc' = "done"
    /\ UNCHANGED <<env, args, uefi, disk, failed, populated, fstab, probes,
                   successLogged, installed, targetBins,
                   arch_keyring_initialized, bootKernel, kernelRepairs, refindTool, gate>>

----------------------------------------------------------------------------
(* The process.                                                            *)

Next ==
    \/ main_c
    \/ init_c
    \/ safety_check_c
    \/ ensure_network_logic
    \/ partition_handler_c
    \/ install_base_c
    \/ setup_chroot_mounts_c
    \/ configure_system_c
    \/ setup_users_c
    \/ install_bootloader_c
    \/ finalize_c
    \/ cleanup_c
    \/ main_m
    \/ init_m
    \/ safety_check_m
    \/ ensure_network
    \/ partition_handler_m
    \/ install_base_m
    \/ setup_chroot_mounts_m
    \/ configure_system_m
    \/ install_bootloader_m
    \/ cleanup_m

Spec == Init /\ [][Next]_vars

\* The command lines of the runs whose termination is checked: whole-disk
\* and manual partitioning on sda under every target and mode.
LiveRequests ==
    {Request(p, t, o, FALSE) :
        p \in {[disk |-> dev_sda, boot |-> NoArg, rootfs |-> NoArg,
                swap |-> NoArg],
               [disk |-> NoArg, boot |-> dev_sda1, rootfs |-> dev_sda2,
                swap |-> NoArg]},
        t \in TargetInputs, o \in BOOLEAN}

LiveInit == Init /\ request \in LiveRequests

\* Every step is a blocking call of the single thread, and every command
\* and prompt returns: the process goes on as long as a step is possible.
FairSpec == LiveInit /\ [][Next]_vars /\ WF_vars(Next)

----------------------------------------------------------------------------
(* src/chimera-gui.py and src/gui.py: the wizard.  Each handler runs to    *)
(* its end on the single GUI thread, modal dialogs included, so it is one  *)
(* step.  Widgets are changed by the user on the page that shows them.     *)

Wizards == {"chimera-gui.py", "gui.py"}

\* BACKEND_SCRIPT: the installer a wizard launches.
BACKEND_SCRIPT(g) ==
    IF g = "chimera-gui.py" THEN "/usr/share/chimera/chimera.py" ELSE "main.py"

\* The pages of the stacked widget, in the order init_pages adds them.
steps(g) ==
    IF g = "chimera-gui.py"
    THEN <<"Welcome", "Install Type", "Location", "Disk Setup", "Partitions",
           "Users", "Summary", "Install">>
    ELSE <<"Welcome", "Location", "Disk Setup", "Partitions", "Users",
           "Summary", "Install">>

\* The page at index idx, and the index of a page.
PageName(g, idx) == steps(g)[idx + 1]
Idx(g, name) == (CHOOSE i \in DOMAIN steps(g) : steps(g)[i] = name) - 1

\* get_os_release: what /etc/os-release can say (ID defaults to "arch").
OsReleases ==
    {[NAME |-> "Blue Archive Linux", ID |-> "bal", ID_LIKE |-> "arch"],
     [NAME |-> "Ubuntu", ID |-> "ubuntu", ID_LIKE |-> "debian"],
     [NAME |-> "Gentoo", ID |-> "gentoo", ID_LIKE |-> ""]}

\* determine_target_os of chimera-gui.py.
determine_target_os(os) ==
    LET supported_targets == {"arch", "gentoo", "debian", "bal"}
    IN  IF os.NAME = "Blue Archive Linux" THEN "bal"
        ELSE IF os.ID \in supported_targets THEN os.ID
        ELSE IF os.ID_LIKE \in supported_targets THEN os.ID_LIKE
        ELSE "generic"

\* The --target value of get_cmd_list: self.target_os in chimera-gui.py,
\* computed from os_info on the spot in gui.py.
target_os(g, os) ==
    IF g = "chimera-gui.py" THEN determine_target_os(os)
    ELSE IF os.NAME = "Blue Archive Linux" THEN "bal" ELSE os.ID

\* f"{swap_size}G"
SwapSizeArg(n) == ToString(n) \o "G"

\* get_cmd_list: the argument vector built from install_data.
get_cmd_list(g, d, os) ==
    <<"python3", "-u", BACKEND_SCRIPT(g)>>
    \o (IF d.method = "whole"
        THEN <<"--disk", IF d.disk # None THEN d.disk ELSE "[NO_DISK]">>
             \o (IF d.swap_size > 0 THEN <<"--swap", SwapSizeArg(d.swap_size)>>
                 ELSE <<>>)
        ELSE <<"--rootfs", IF d.root # None THEN d.root ELSE "[NO_ROOT]",
               "--boot", IF d.boot # None THEN d.boot ELSE "[NO_BOOT]">>
             \o (IF d.swap # None THEN <<"--swap", d.swap>> ELSE <<>>))
    \o <<"--user", d.user, "--passwd", d.pass, "--timezone", d.tz,
         "--target", target_os(g, os)>>
    \o (IF g = "chimera-gui.py"
        THEN (IF d.install_type = "offline" THEN <<"--offline">> ELSE <<>>)
             \o (IF d.install_type = "online" THEN <<"--online">> ELSE <<>>)
        ELSE <<>>)
    \o <<"--i-am-very-stupid", "--debug">>

\* What lsblk can list for the selected disk when populate_partitions
\* runs: nothing (or an error), or two partitions.
Listings == {<<>>, <<"/dev/sda1", "/dev/sda2">>}

\* refresh_disks at start-up: the path of the first disk listed, or None
\* under "No valid disks found".
DiskChoices == {None, "/dev/sda"}

\* populate_partitions: the three combo boxes are cleared and filled from
\* the listing; root and boot then show the first partition, swap "None".
populate_partitions(sel_disk, listing) ==
    LET shown == IF sel_disk = None THEN <<>> ELSE listing
        first == IF shown = <<>> THEN None ELSE shown[1]
    IN  [parts |-> shown, root |-> first, boot |-> first, swap |-> None]

\* The initial install_data of a wizard.
DefaultData(g) ==
    IF g = "chimera-gui.py"
    THEN [install_type |-> "online", disk |-> None, root |-> None,
          boot |-> None, swap |-> None, swap_size |-> 0, method |-> "whole",
          user |-> "", pass |-> "", tz |-> "UTC"]
    ELSE [disk |-> None, root |-> None, boot |-> None, swap |-> None,
          swap_size |-> 0, method |-> "whole", user |-> "", pass |-> "",
          tz |-> "UTC"]

\* The variables of the installer process.
installer ==
    <<variant, request, args, efiDir, archChroot, bootstrap, uefi, disk, pc,
      stages, cmds, failed, mounts, populated, fstab, probes, typed, cleanups,
      exitStatus, successLogged, installed, targetBins,
      arch_keyring_initialized, machine_id, bootKernel, kernelRepairs,
      refindTool>>

\* The wizard before it has started an installer.
NoInstaller ==
    /\ variant = (IF gui = "chimera-gui.py" THEN "chimera.py" ELSE "main.py")
    /\ request = Request([disk |-> NoArg, boot |-> NoArg, rootfs |-> NoArg,
                          swap |-> NoArg], "arch", FALSE, FALSE)
    /\ args = request
    /\ efiDir = FALSE
    /\ archChroot = FALSE
    /\ bootstrap = TRUE
    /\ uefi = FALSE
    /\ disk = NoArg
    /\ pc = "main"
    /\ stages = <<>>
    /\ cmds = <<>>
    /\ failed = <<>>
    /\ mounts = {}
    /\ populated = FALSE
    /\ fstab = <<>>
    /\ probes = <<>>
    /\ typed = <<>>
    /\ cleanups = 0
    /\ exitStatus = -1
    /\ successLogged = FALSE
    /\ installed = ""
    /\ targetBins = <<>>
    /\ arch_keyring_initialized = FALSE
    /\ machine_id = FALSE
    /\ bootKernel = "unknown"
    /\ kernelRepairs = 0
    /\ refindTool = "unseen"

\* InstallerWindow.__init__ with setup_ui and init_pages: the window as it
\* is shown.
WizardInit ==
    /\ gui \in Wizards
    /\ os_info \in OsReleases
    /\ page = 0
    /\ rad_offline = FALSE
    /\ cmb_disk \in DiskChoices
    /\ rad_erase = TRUE
    /\ spin_swap = 4
    /\ parts = <<>>
    /\ cmb_root = None
    /\ cmb_boot = None
    /\ cmb_swap = None
    /\ inp_user = ""
    /\ inp_pass = ""
    /\ install_data = DefaultData(gui)
    /\ dry_run = FALSE
    /\ process = <<>>
    /\ txt_log = <<>>
    /\ NoInstaller

\* The user checks one of the two install-type radio buttons (chimera-gui.py
\* only; the offline button is disabled for gentoo and generic).
choose_install_type ==
    /\ gui = "chimera-gui.py"
    /\ PageName(gui, page) = "Install Type"
    /\ \E offline \in BOOLEAN :
          /\ offline => determine_target_os(os_info) \notin {"gentoo", "generic"}
          /\ rad_offline' = offline
    /\ UNCHANGED <<installer, gui, os_info, page, cmb_disk, rad_erase,
                   spin_swap, parts, cmb_root, cmb_boot, cmb_swap, inp_user,
                   inp_pass, install_data, dry_run, process, txt_log>>

\* The values the user sets the swap spin box to.
SwapSizes_gui == {0, 4}

\* The user checks a method radio button or changes the swap size on the
\* Disk Setup page.
choose_method ==
    /\ gui \in Wizards
    /\ PageName(gui, page) = "Disk Setup"
    /\ \E erase \in BOOLEAN, size \in SwapSizes_gui :
          /\ rad_erase' = erase
          /\ spin_swap' = size
    /\ UNCHANGED <<installer, gui, os_info, page, rad_offline, cmb_disk,
                   parts, cmb_root, cmb_boot, cmb_swap, inp_user, inp_pass,
                   install_data, dry_run, process, txt_log>>

\* The entries of a partition combo box.
Entries(shown) == {shown[i] : i \in DOMAIN shown}

\* The entries of the swap combo box the user picks from: its leading
\* "None" and the last partition.
SwapEntries(shown) == {None, shown[Len(shown)]}

\* The user picks entries in the combo boxes of the Partitions page.
choose_partitions ==
    /\ gui \in Wizards
    /\ PageName(gui, page) = "Partitions"
    /\ parts # <<>>
    /\ \E r \in Entries(parts), b \in Entries(parts),
          s \in SwapEntries(parts) :
          /\ cmb_root' = r
          /\ cmb_boot' = b
          /\ cmb_swap' = s
    /\ UNCHANGED <<installer, gui, os_info, page, rad_offline, cmb_disk,
                   rad_erase, spin_swap, parts, inp_user, inp_pass,
                   install_data, dry_run, process, txt_log>>

\* "Refresh Partition List", and launch_cfdisk, which runs cfdisk in a
\* terminal when a disk is selected and a terminal is found and then calls
\* populate_partitions.
refresh_partitions ==
    /\ gui \in Wizards
    /\ PageName(gui, page) = "Partitions"
    /\ \E listing \in Listings :
          LET p == populate_partitions(cmb_disk, listing)
          IN  /\ parts' = p.parts
              /\ cmb_root' = p.root
              /\ cmb_boot' = p.boot
              /\ cmb_swap' = p.swap
    /\ UNCHANGED <<installer, gui, os_info, page, rad_offline, cmb_disk,
                   rad_erase, spin_swap, inp_user, inp_pass, install_data,
                   dry_run, process, txt_log>>

\* What the user types into a field of the Users page.
Typed_gui == {"", "sensei"}

\* The user edits the name and password fields of the Users page.
type_account ==
    /\ gui \in Wizards
    /\ PageName(gui, page) = "Users"
    /\ \E u \in Typed_gui, p \in Typed_gui :
          /\ inp_user' = u
          /\ inp_pass' = p
    /\ UNCHANGED <<installer, gui, os_info, page, rad_offline, cmb_disk,
                   rad_erase, spin_swap, parts, cmb_root, cmb_boot, cmb_swap,
                   install_data, dry_run, process, txt_log>>

\* open_debug_settings: chimera-gui.py first copies the widgets into
\* install_data, unvalidated, keeping an entry where the widget holds
\* nothing; gui.py copies the disk when the Disk Setup page is shown.  The
\* dialog then shows the command, and "Apply & Close" sets dry_run.
open_debug_settings ==
    /\ gui \in Wizards
    /\ install_data' =
          IF gui = "chimera-gui.py"
          THEN [install_data EXCEPT
                  !.install_type = IF rad_offline THEN "offline" ELSE "online",
                  !.disk = IF cmb_disk # None THEN cmb_disk ELSE @,
                  !.method = IF rad_erase THEN "whole" ELSE "manual",
                  !.swap_size = spin_swap,
                  !.root = IF cmb_root # None THEN cmb_root ELSE @,
                  !.boot = IF cmb_boot # None THEN cmb_boot ELSE @,
                  !.swap = IF cmb_swap # None THEN cmb_swap ELSE @,
                  !.user = inp_user,
                  !.pass = inp_pass]
          ELSE IF page = 2 THEN [install_data EXCEPT !.disk = cmb_disk]
          ELSE install_data
    /\ \E accepted \in BOOLEAN, chk_dry_run \in BOOLEAN :
          dry_run' = IF accepted THEN chk_dry_run ELSE dry_run
    /\ UNCHANGED <<installer, gui, os_info, page, rad_offline, cmb_disk,
                   rad_erase, spin_swap, parts, cmb_root, cmb_boot, cmb_swap,
                   inp_user, inp_pass, process, txt_log>>

\* A Partitions page that only asks for two partitions.
PartitionsValid_nonEmpty(r, b) == r # None /\ b # None

\* The two tests of go_next on the Partitions page: both partitions
\* chosen, and not the same one.
PartitionsValid(r, b) == r # None /\ b # None /\ r # b

\* A Summary page that starts the installation whatever was answered.
Proceed_unasked(dry, answer) == dry \/ answer \in {"Yes", "No"}

\* go_next on the Summary page: outside a dry run the question "Disk
\* changes are permanent. Proceed?" has to be answered Yes.
Proceed(dry, answer) == dry \/ answer = "Yes"

\* start_install: a dry run prints the command and returns.
StartsProcess(dry) == ~dry

\* start_install, entered from go_next on page `from' after `answer'.
start_install(from, answer) ==
    LET cmd == get_cmd_list(gui, install_data, os_info)
    IN  /\ page' = Idx(gui, "Install")
        /\ IF StartsProcess(dry_run)
           THEN /\ process' = Append(process, [cmd |-> cmd, from |-> from,
                                               answer |-> answer,
                                               dry_run |-> dry_run])
                /\ txt_log' = txt_log
           ELSE /\ txt_log' = Append(txt_log, cmd)
                /\ process' = process

\* The buttons of the question dialog.
Answers == {"Yes", "No"}

\* go_next, the handler of the Next button, which update_nav hides on the
\* Install page.
go_next ==
    /\ gui \in Wizards
    /\ page < Idx(gui, "Install")
    /\ LET here == PageName(gui, page)
       IN  CASE here = "Install Type" ->
                  \* an online install waits in the "No Internet Connection"
                  \* loop until a probe succeeds or the user cancels
                  /\ install_data' = [install_data EXCEPT !.install_type =
                                        IF rad_offline THEN "offline" ELSE "online"]
                  /\ \E cancelled \in BOOLEAN :
                        page' = IF ~rad_offline /\ cancelled THEN page ELSE page + 1
                  /\ UNCHANGED <<parts, cmb_root, cmb_boot, cmb_swap, process, txt_log>>
             [] here = "Disk Setup" ->
                  IF cmb_disk = None
                  THEN /\ install_data' = [install_data EXCEPT !.disk = cmb_disk]
                       /\ UNCHANGED <<page, parts, cmb_root, cmb_boot, cmb_swap,
                                      process, txt_log>>
                  ELSE /\ install_data' =
                             [install_data EXCEPT
                                !.disk = cmb_disk,
                                !.method = IF rad_erase THEN "whole" ELSE "manual",
                                !.swap_size = spin_swap]
                       /\ IF rad_erase
                          THEN /\ page' = Idx(gui, "Users")
                               /\ UNCHANGED <<parts, cmb_root, cmb_boot, cmb_swap>>
                          ELSE \E listing \in Listings :
                                 LET p == populate_partitions(cmb_disk, listing)
                                 IN  /\ parts' = p.parts
                                     /\ cmb_root' = p.root
                                     /\ cmb_boot' = p.boot
                                     /\ cmb_swap' = p.swap
                                     /\ page' = page + 1
                       /\ UNCHANGED <<process, txt_log>>
             [] here = "Partitions" ->
                  IF PartitionsValid(cmb_root, cmb_boot)
                  THEN /\ install_data' = [install_data EXCEPT
                                             !.root = cmb_root,
                                             !.boot = cmb_boot,
                                             !.swap = cmb_swap]
                       /\ page' = page + 1
                       /\ UNCHANGED <<parts, cmb_root, cmb_boot, cmb_swap,
                                      process, txt_log>>
                  ELSE UNCHANGED <<install_data, page, parts, cmb_root,
                                   cmb_boot, cmb_swap, process, txt_log>>
             [] here = "Users" ->
                  IF inp_user = "" \/ inp_pass = ""
                  THEN UNCHANGED <<install_data, page, parts, cmb_root,
                                   cmb_boot, cmb_swap, process, txt_log>>
                  ELSE /\ install_data' = [install_data EXCEPT
                                             !.user = inp_user,
                                             !.pass = inp_pass]
                       /\ page' = page + 1
                       /\ UNCHANGED <<parts, cmb_root, cmb_boot, cmb_swap,
                                      process, txt_log>>
             [] here = "Summary" ->
                  \E answer \in (IF dry_run THEN {""} ELSE Answers) :
                     /\ IF Proceed(dry_run, answer)
                        THEN start_install(page, answer)
                        ELSE UNCHANGED <<page, process, txt_log>>
                     /\ UNCHANGED <<install_data, parts, cmb_root, cmb_boot,
                                    cmb_swap>>
             [] OTHER ->
                  \* Welcome, and Location (whose time zone is not modelled)
                  /\ page' = page + 1
                  /\ UNCHANGED <<install_data, parts, cmb_root, cmb_boot,
                                 cmb_swap, process, txt_log>>
    /\ UNCHANGED <<installer, gui, os_info, rad_offline, cmb_disk, rad_erase,
                   spin_swap, inp_user, inp_pass, dry_run>>

\* go_back, the handler of the Back button, which update_nav shows on the
\* pages between Welcome and Install.
go_back ==
    /\ gui \in Wizards
    /\ page > 0
    /\ page < Idx(gui, "Install")
    /\ page' = IF PageName(gui, page) = "Users" /\ install_data.method = "whole"
               THEN Idx(gui, "Disk Setup")
               ELSE page - 1
    /\ UNCHANGED <<installer, gui, os_info, rad_offline, cmb_disk, rad_erase,
                   spin_swap, parts, cmb_root, cmb_boot, cmb_swap, inp_user,
                   inp_pass, install_data, dry_run, process, txt_log>>

WizardNext ==
    \/ choose_install_type
    \/ choose_method
    \/ choose_partitions
    \/ refresh_partitions
    \/ type_account
    \/ open_debug_settings
    \/ go_next
    \/ go_back

WizardSpec == WizardInit /\ [][WizardNext]_vars

----------------------------------------------------------------------------
(* Properties.                                                             *)

Range(f) == {f[i] : i \in DOMAIN f}

\* The commands issued so far that satisfy Test, in order.
Only(Test(_)) == SelectSeq(cmds, Test)

\* run() has been entered: __init__ returned and the try block begins.
RunEntered == pc \notin {"main", "init"} /\ ~(pc = "done" /\ stages = <<>>)

\* The recursive unmount of the mount point, as cleanup issues it.
IsCleanupUmount(c) == c.stage = "Cleanup" /\ c.tool = "umount"

\* C1: every execution of run() - completed, stopped by an exception of a
\* stage, by the SystemExit of a declined safety gate or by a failed
\* network check - reaches the end of the process with cleanup() executed
\* exactly once and the recursive unmount of the mount point issued; at no
\* point has cleanup() run twice.
C1_CleanupExactlyOnce ==
    /\ RunEntered ~> (/\ pc = "done"
                      /\ cleanups = 1
                      /\ Len(Only(IsCleanupUmount)) = 1)
    /\ [](cleanups <= 1 /\ Len(Only(IsCleanupUmount)) <= 1)
    /\ [](cleanups = 1 => cmds[Len(cmds)] = May(UmountAll("Cleanup")))

\* C1, reached: a run that a failing command stopped has ended, cleaned up.
C1_Witness ==
    /\ pc = "done"
    /\ failed # <<>>
    /\ exitStatus = EXIT_FAILURE
    /\ cleanups = 1
    /\ Len(Only(IsCleanupUmount)) = 1

\* The tools the safety gate stands in front of.
DestructiveTools ==
    {"wipefs", "parted", "mkfs.ext4", "mkfs.vfat", "mkswap", "swapon", "mount"}

\* The prompt was shown and answered with something other than YES.
Declined ==
    /\ ~args.i_am_very_stupid
    /\ typed # <<>>
    /\ typed[Len(typed)] # "YES"

\* C2: without the bypass flag, an answer other than the literal YES means
\* that no wipefs, parted, mkfs, mkswap, swapon or mount command is ever
\* executed in the run and that the run leaves the pipeline before the
\* Partition stage.
C2_DeclinedGateIsHarmless ==
    Declined =>
        /\ \A i \in DOMAIN cmds : cmds[i].tool \notin DestructiveTools
        /\ "Partition" \notin Range(stages)
        /\ pc \in {"cleanup", "done"}
        /\ exitStatus = EXIT_FAILURE

\* C2, reached: a run answered "yes" in lower case has ended.
C2_Witness ==
    /\ typed = <<"yes">>
    /\ pc = "done"
    /\ stages = <<"SafetyGate", "Cleanup">>

\* The stages in the order of the pipeline.
StageOrder ==
    <<"SafetyGate", "NetworkCheck", "Partition", "BaseInstall", "MountPseudo",
      "Configure", "Bootloader", "Finalize", "Cleanup">>

StageIndex(s) == CHOOSE i \in DOMAIN StageOrder : StageOrder[i] = s

\* C3: the stages of a run start in the order of the pipeline, none is
\* entered twice, and the pseudo-filesystem binding is not done a second
\* time from inside Configure.
C3_StagesInOrderOnce ==
    /\ \A i, j \in DOMAIN stages :
          i < j => StageIndex(stages[i]) < StageIndex(stages[j])
    /\ \A i, j \in DOMAIN cmds :
          i < j /\ cmds[i].stage = "MountPseudo" => cmds[i] # cmds[j]

\* The tools of the Partition stage whose failure must stop the run.
PartitionTools ==
    {"wipefs", "parted", "partprobe", "mkfs.ext4", "mkfs.vfat", "mkswap",
     "swapon", "mount"}

IsPartitioning(c) == c.stage = "Partition" /\ c.tool \in PartitionTools

IsBeforeCleanup(c) == c.stage # "Cleanup"

\* C4: a non-zero exit of a partition, format or mount command of the
\* Partition stage raises (the call is checked and its error not ignored),
\* and once one has raised it is the last command issued before Cleanup:
\* it is not re-issued, no stage from BaseInstall to Finalize starts, the
\* success line is not logged, and the run goes to cleanup() and ends with
\* the failure status, cleaned up.
C4_PartitionFailurePropagates ==
    /\ \A i \in DOMAIN cmds :
          IsPartitioning(cmds[i])
              => run_cmd(FALSE, cmds[i].check, cmds[i].ignore) = "raise"
    /\ (failed # <<>> /\ IsPartitioning(failed[1])) =>
          /\ Len(failed) = 1
          /\ LET before == Only(IsBeforeCleanup)
             IN  before[Len(before)] = failed[1]
          /\ Range(stages) \subseteq
                {"SafetyGate", "NetworkCheck", "Partition", "Cleanup"}
          /\ pc \in {"cleanup", "done"}
          /\ exitStatus = EXIT_FAILURE
          /\ ~successLogged
          /\ pc = "done" => cleanups = 1

\* C4, reached: formatting the root partition failed and the run has ended.
C4_Witness ==
    /\ pc = "done"
    /\ failed # <<>>
    /\ failed[1].stage = "Partition"
    /\ failed[1].tool = "mkfs.ext4"
    /\ cleanups = 1

\* A partition-creation command.
IsMkPart(c) ==
    /\ c.tool = "parted"
    /\ c.op \in {"mkpart primary", "mkpart primary linux-swap"}

\* The extents of the partitions created so far, in creation order.
Created ==
    LET mk == Only(IsMkPart)
    IN  [i \in 1..Len(mk) |-> [from |-> mk[i].from, to |-> mk[i].to]]

\* The run was given a whole disk.
WholeDisk == request.disk # NoArg

\* partition_handler has returned.
Partitioned == pc = "install_base" \/ "BaseInstall" \in Range(stages)

\* A swap size in MiB as the layout rule reads it: n*1024 for "nG", n for
\* "nM".
SwapMiB(size) ==
    LET n == ParseInt(FilterDigits(size))
    IN  IF size[Len(size)] = "G" THEN n * 1024 ELSE n

\* The layout rule: boot [1MiB, 513MiB), swap [513MiB, 513MiB + S) when a
\* size S is requested, root from the end of the previous partition to 100%.
Layout(r) ==
    LET S == IF r.swap # NoArg THEN SwapMiB(r.swap) ELSE 0
    IN  <<[from |-> MiB(1), to |-> MiB(513)]>>
        \o (IF r.swap # NoArg
            THEN <<[from |-> MiB(513), to |-> MiB(513 + S)]>> ELSE <<>>)
        \o <<[from |-> MiB(513 + S), to |-> Percent100]>>

IsPrefix(s, t) == Len(s) <= Len(t) /\ s = SubSeq(t, 1, Len(s))

\* C5: for a whole-disk request the partitions created are, in order, those
\* of the layout rule - boot [1MiB, 513MiB), swap [513MiB, 513MiB + S) for a
\* requested size S (n*1024 MiB for "nG", n MiB for "nM"), root from there
\* to 100% - each starting where the previous one ends; once
\* partition_handler has returned all of them are created.
C5_LayoutFollowsRule ==
    WholeDisk =>
        /\ IsPrefix(Created, Layout(request))
        /\ Partitioned => Created = Layout(request)

\* The commands that write a partition table or its signatures.
TableTools == {"wipefs", "parted", "partprobe"}

\* C6: a run given no --disk never executes wipefs, parted (mklabel,
\* mkpart, set) or partprobe, in any stage and on any path.
C6_ManualNeverRepartitions ==
    ~WholeDisk => \A i \in DOMAIN cmds : cmds[i].tool \notin TableTools

\* C6, reached: a manual-mode run formatted and mounted its partitions and
\* completed.
C6_Witness ==
    /\ ~WholeDisk
    /\ args.boot = dev_sda1
    /\ args.rootfs = dev_sda2
    /\ "/mnt/chimera_target" \in mounts
    /\ pc = "done"
    /\ successLogged

\* The commands that format or mount a partition.
FormatTools == {"mkfs.ext4", "mkfs.vfat", "mkswap", "mount"}

\* C7: a manual-mode request whose --boot and --rootfs are the same device
\* is rejected: no format or mount command is executed for it, and the
\* process ends with an error.
C7_EqualBootRootRejected ==
    (~WholeDisk /\ request.boot # NoArg /\ request.boot = request.rootfs) =>
        /\ \A i \in DOMAIN cmds : cmds[i].tool \notin FormatTools
        /\ pc = "done" => exitStatus # 0

\* C8: the installer is only constructed for a command line that selects
\* exactly one mode: --disk without --boot and --rootfs, or --boot together
\* with --rootfs without --disk.
C8_ExactlyOneMode ==
    (pc = "init" \/ RunEntered) =>
        \/ /\ request.disk # NoArg
           /\ request.boot = NoArg
           /\ request.rootfs = NoArg
        \/ /\ request.disk = NoArg
           /\ request.boot # NoArg
           /\ request.rootfs # NoArg

\* _auto_partition_disk has assigned the partition paths.
PathsAssigned == WholeDisk /\ args # request

\* The partition paths of a disk for an infix, with or without swap.
PathsWith(d, infix, swap) ==
    [boot   |-> d \o infix \o DigitStr(1),
     swap   |-> IF swap THEN <<d \o infix \o DigitStr(2)>> ELSE <<>>,
     rootfs |-> d \o infix \o DigitStr(IF swap THEN 3 ELSE 2)]

\* The partition paths the run holds.
PathsHeld ==
    [boot   |-> args.boot,
     swap   |-> IF request.swap # NoArg THEN <<args.swap>> ELSE <<>>,
     rootfs |-> args.rootfs]

\* C9: for a whole-disk request the generated partition paths are
\* disk + "p" + N when the disk name contains nvme or mmc, and disk + N
\* otherwise, for each partition number N.
C9_InfixIffNvmeOrMmc ==
    PathsAssigned =>
        LET d     == request.disk
            infix == IF Contains(d, s_nvme) \/ Contains(d, s_mmc)
                     THEN <<"p">> ELSE <<>>
        IN  PathsHeld = PathsWith(d, infix, request.swap # NoArg)

\* The roles of the plan of a whole-disk request, in order.
Roles(r) ==
    IF r.swap # NoArg THEN <<"boot", "swap", "root">> ELSE <<"boot", "root">>

\* C10: in whole-disk mode one partition is created per role of the plan
\* (two without swap, three with), so that once the paths are assigned the
\* number in each role's path is the creation index of its partition:
\* the partition created last, which runs to 100%, is the root partition.
C10_OneCreationPerRole ==
    WholeDisk =>
        LET n == Len(Roles(request))
        IN  /\ Len(Created) <= n
            /\ Partitioned =>
                  /\ Len(Created) = n
                  /\ Created[n].to = Percent100
                  /\ args.boot[Len(args.boot)] = "1"
                  /\ args.rootfs[Len(args.rootfs)] = DigitStr(n)[1]

\* C11: cleanup() is idempotent.  Invoked twice in a row from any state of
\* a run, neither invocation raises to the caller whatever the exit status
\* of the unmount (which depends on what is mounted and what is busy), the
\* second invocation leaves mounted exactly what the first left mounted,
\* and an invocation with nothing mounted leaves nothing mounted and writes
\* nothing into the target.
C11_CleanupIdempotent ==
    \A had \in BOOLEAN, ok1 \in BOOLEAN, ok2 \in BOOLEAN, busy \in SUBSET mounts :
        LET first  == cleanup(variant, mounts, populated, had, ok1, busy)
            second == cleanup(variant, first.mounts, populated,
                              first.machine_id, ok2, busy)
        IN  /\ first.raised = 0
            /\ second.raised = 0
            /\ second.mounts = first.mounts
            /\ mounts = {} => (first.mounts = {} /\ ~first.machine_id)

\* C11, reached: cleanup() has run once and left the busy root mounted, the
\* state from which a second invocation is considered.
C11_Witness ==
    /\ pc = "done"
    /\ cleanups = 1
    /\ mounts = {MOUNT_POINT}
    /\ cmds[Len(cmds)] = May(UmountAll("Cleanup"))

IsNmtui(c) == c.tool = "nmtui"

\* Every probe so far was made by the NetworkCheck stage (main.py probes
\* once more in Configure).
OnlyNetworkCheckProbed == "Configure" \notin Range(stages)

\* C12: when the first connectivity probe of NetworkCheck fails, the probe
\* is repeated exactly once, the network-configuration tool is launched at
\* most once in between, and when the second probe fails too the run aborts
\* as fatal with no Partition-stage command executed.
C12_OneRemediationThenFatal ==
    /\ Len(Only(IsNmtui)) <= 1
    /\ (OnlyNetworkCheckProbed /\ probes # <<>> /\ ~probes[1]) =>
          /\ Len(probes) = 2
          /\ ~probes[2] =>
                /\ \A i \in DOMAIN cmds : cmds[i].stage # "Partition"
                /\ "Partition" \notin Range(stages)
                /\ pc \in {"cleanup", "done"}
                /\ exitStatus = EXIT_FAILURE
                /\ ~successLogged
    /\ (OnlyNetworkCheckProbed /\ probes # <<>> /\ probes[1]) => Len(probes) = 1

\* C12, reached: both probes failed with the tool launched in between, and
\* the run has ended.
C12_Witness ==
    /\ probes = <<FALSE, FALSE>>
    /\ Len(Only(IsNmtui)) = 1
    /\ pc = "done"
    /\ cleanups = 1

\* The last probe of the run found the network unreachable.
NetworkFoundUnreachable == probes # <<>> /\ ~probes[Len(probes)]

\* C13: when configure_system leaves a target whose boot directory holds
\* no kernel image, then unless a probe has just found the network
\* unreachable _emergency_install_kernel has been called exactly once
\* before install_bootloader starts, whatever the target; and it is never
\* called more than once in a run.
C13_OneEmergencyKernelInstall ==
    /\ kernelRepairs <= 1
    /\ (pc = "install_bootloader" /\ bootKernel = "absent")
          => (kernelRepairs = 1 \/ NetworkFoundUnreachable)

\* The package-manager commands of _emergency_install_kernel.
IsEmergencyKernel(c) ==
    \E pm \in {"pacman", "apt"} :
        c \in Range(emergency_install_kernel(pm, TRUE).rest)

\* The emergency kernel install was attempted and its command exited
\* non-zero.
EmergencyKernelFailed == \E i \in DOMAIN failed : IsEmergencyKernel(failed[i])

\* C14: a failed emergency kernel install does not abort the run: control
\* goes on to install_bootloader, the exit status is not that of a failure,
\* and once the run is over both Bootloader and Cleanup have been executed.
C14_EmergencyFailureIsWarning ==
    EmergencyKernelFailed =>
        /\ exitStatus # EXIT_FAILURE
        /\ pc = "install_bootloader" \/ "Bootloader" \in Range(stages)
        /\ pc = "done" => "Cleanup" \in Range(stages)

\* The keyring commands of _initialize_arch_keyring, in any stage.
IsKeyringInit(c) == c.where = "chroot" /\ c.tool = "pacman-key --init"
IsKeyringPopulate(c) ==
    c.where = "chroot" /\ c.tool = "pacman-key --populate archlinux"
IsKeyring(c) == IsKeyringInit(c) \/ IsKeyringPopulate(c)

\* The callers of _initialize_arch_keyring that got as far as their own
\* pacman command: configure_system, _emergency_install_kernel,
\* _emergency_install_boottools.
IsKeyringUser(c) ==
    /\ c.where = "chroot"
    /\ c.tool \in {"pacman -Syu --noconfirm",
                   "pacman -S --noconfirm linux linux-firmware",
                   "pacman -S --noconfirm grub efibootmgr"}

\* C15: in a run pacman-key --init is executed at most once, and
\* pacman-key --populate at most once and only after it, however many
\* callers ask for the keyring; the flag is set only after both, and once
\* set it is never cleared.
C15_KeyringInitializedOnce ==
    /\ [](/\ Len(Only(IsKeyringInit)) <= 1
          /\ Len(Only(IsKeyringPopulate)) <= 1
          /\ Len(Only(IsKeyring)) = 2 => IsKeyringInit(Only(IsKeyring)[1])
          /\ Len(Only(IsKeyring)) = 1 => IsKeyringInit(Only(IsKeyring)[1])
          /\ arch_keyring_initialized => Len(Only(IsKeyring)) = 2)
    /\ [][arch_keyring_initialized => arch_keyring_initialized']_vars

\* Two callers asked for the keyring and it was initialized once.
C15_Witness ==
    /\ Len(Only(IsKeyringUser)) >= 2
    /\ Len(Only(IsKeyringInit)) = 1
    /\ arch_keyring_initialized

\* install_bootloader issued grub-install and it exited non-zero: the
\* command is in the trace and no boot manager was recorded as installed.
IsGrubInstall(c) == c.stage = "Bootloader" /\ c.tool = "grub-install"
GrubInstallFailed ==
    /\ Only(IsGrubInstall) # <<>>
    /\ installed = ""

\* C16: a failed grub-install does not abort the run: the exit status is
\* not that of a failure, and the run that ends has gone through Finalize
\* and then Cleanup.
C16_GrubFailureNotFatal ==
    GrubInstallFailed =>
        /\ exitStatus # EXIT_FAILURE
        /\ pc = "done" =>
              /\ Len(stages) >= 2
              /\ SubSeq(stages, Len(stages) - 1, Len(stages)) = <<"Finalize", "Cleanup">>

\* The run ended reporting plain success.
PlainSuccess == pc = "done" /\ successLogged /\ exitStatus = 0

\* C17: a run whose bootloader installation failed, so that no boot manager
\* was installed, does not end with the success message and exit status 0.
C17_BootloaderFailureSurfaced == GrubInstallFailed => ~PlainSuccess

\* The stages every run of back end v goes through when nothing fails, up
\* to the last one of its try block.
MandatoryStages(v) ==
    IF v = "chimera.py"
    THEN {"SafetyGate", "Partition", "BaseInstall", "Configure", "Bootloader",
          "Finalize"}
    ELSE {"SafetyGate", "Partition", "BaseInstall", "MountPseudo", "Configure",
          "Bootloader"}

\* The try block of run() ran to its end: every stage was entered, no
\* command raised, and the success message was printed.
AllStagesCompleted ==
    /\ MandatoryStages(variant) \subseteq Range(stages)
    /\ failed = <<>>
    /\ successLogged

\* C18: a process that has ended has exit status 0 exactly when the try
\* block of run() ran to its end; a command that raised always gives a
\* non-zero status; and the success message is never printed in a run that
\* exits non-zero.
C18_ExitStatusReflectsOutcome ==
    /\ pc = "done" => (exitStatus = 0 <=> AllStagesCompleted)
    /\ failed # <<>> => exitStatus = EXIT_FAILURE
    /\ successLogged => exitStatus \in {-1, 0}
    /\ successLogged => AllStagesCompleted

\* A run that failed in the middle and ended with status 1 and no success
\* message.
C18_Witness ==
    /\ pc = "done"
    /\ failed # <<>>
    /\ "Partition" \in Range(stages)
    /\ exitStatus = EXIT_FAILURE
    /\ ~successLogged

\* The request or the host fails a check of ChimeraInstaller.__init__ of
\* chimera.py: --user without --passwd, or an online arch or debian
\* request on a host without the bootstrap tool.
PreflightError ==
    /\ variant = "chimera.py"
    /\ \/ args.user # NoArg /\ args.passwd = NoArg
       \/ args.online /\ args.target \in {"arch", "debian"} /\ ~bootstrap

\* C19: a process whose request fails a pre-flight check never enters
\* run(): its trace of commands stays empty (no unmount, swapoff, wipe,
\* partition, format or mount), it runs no stage and no cleanup, and it
\* ends with a non-zero exit status after making the check once.
C19_PreflightErrorExitsBeforeRun ==
    PreflightError =>
        /\ cmds = <<>>
        /\ stages = <<>>
        /\ cleanups = 0
        /\ pc \in {"main", "init", "done"}
        /\ pc = "done" => exitStatus \in {EXIT_FAILURE, EXIT_USAGE}

\* __init__ found the disk, then --user without --passwd, and exited.
C19_Witness ==
    /\ PreflightError
    /\ args.user # NoArg
    /\ disk = dev_sda
    /\ pc = "done"
    /\ exitStatus = EXIT_FAILURE

\* The distribution identifiers the parser of each back end knows.
KnownTargets(v) == IF v = "chimera.py" THEN choices_c ELSE choices_m

\* A request whose only flaw, if it is one, is a --target value the back
\* end does not know.
UnknownTargetOnly ==
    /\ args.target \notin KnownTargets(variant)
    /\ args.disk # NoArg
    /\ args.user = NoArg

\* C20: a --target value that is not a known identifier is accepted and
\* treated as the generic profile: the process is not stopped by a usage
\* error, and a run of it that succeeds has gone through the base
\* installation.
C20_UnknownTargetIsGeneric ==
    UnknownTargetOnly =>
        /\ exitStatus # EXIT_USAGE
        /\ pc = "done" /\ exitStatus = 0 => "BaseInstall" \in Range(stages)

\* What /bin/sh -c makes of a line: single and double quotes group
\* characters into a word, blanks end a word, `;' and `|' end a command.
\* The result is the sequence of commands, each the sequence of its words.
\* (Only these metacharacters occur in the lines of the model; quotes are
\* balanced in all of them.)
RECURSIVE ShScan(_, _, _, _, _, _, _)
ShScan(line, i, quote, inWord, word, words, out) ==
    LET endWord == IF inWord THEN Append(words, word) ELSE words
        endCmd  == IF endWord # <<>> THEN Append(out, endWord) ELSE out
    IN  IF i > Len(line) THEN endCmd
        ELSE LET ch == line[i]
             IN  IF quote # ""
                 THEN IF ch = quote
                      THEN ShScan(line, i + 1, "", TRUE, word, words, out)
                      ELSE ShScan(line, i + 1, quote, TRUE, Append(word, ch), words, out)
                 ELSE IF ch \in {"'", "\""}
                 THEN ShScan(line, i + 1, ch, TRUE, word, words, out)
                 ELSE IF ch = " "
                 THEN ShScan(line, i + 1, "", FALSE, <<>>, endWord, out)
                 ELSE IF ch \in {";", "|"}
                 THEN ShScan(line, i + 1, "", FALSE, <<>>, <<>>, endCmd)
                 ELSE ShScan(line, i + 1, "", TRUE, Append(word, ch), words, out)

Sh(line) == ShScan(line, 1, "", FALSE, <<>>, <<>>, <<>>)

\* The programs a line runs: the first word of each of its commands.
ShPrograms(line) == [k \in DOMAIN Sh(line) |-> Sh(line)[k][1]]

\* The shell metacharacters, and a value without them.
ShellMeta == {"'", "\"", ";", "|", " "}
IsPlain(ch) == ch \notin ShellMeta
Plain(value) == SelectSeq(value, IsPlain)

\* The request that differs from a only in the shell metacharacters inside
\* --user and --passwd.
PlainTwin(a) == [a EXCEPT !.user = Plain(a.user), !.passwd = Plain(a.passwd)]

\* The commands issued so far that were built from values of the request.
CarriesValue(c) == c.line # <<>>

\* C21: the commands built from --user and --passwd run, inside the target,
\* the same programs as those built for the request that differs only in
\* the shell metacharacters inside these values: a value never ends the
\* word it is in.
C21_RequestValuesStayQuoted ==
    LET mine == Only(CarriesValue)
        twin == SelectSeq(setup_users_program(PlainTwin(args)), CarriesValue)
    IN  \A k \in DOMAIN mine :
            /\ k <= Len(twin)
            /\ ShPrograms(mine[k].line) = ShPrograms(twin[k].line)

\* The copy of the live system raised; a step of the stage-archive fetch
\* (the listing, the download, the extraction) raised.
CloneRaised == \E i \in DOMAIN failed : failed[i].tool = "rsync"
FetchRaised ==
    \E i \in DOMAIN failed :
        failed[i].stage = "BaseInstall" /\ failed[i].tool \in {"urllib.request", "tar"}

\* C22: a failed copy of the live system never reaches the caller as an
\* exception, so that it cannot abort the run and Configure still follows;
\* a failed fetch of the stage archive aborts the run before Configure.
C22_CloneBestEffortFetchFatal ==
    /\ ~CloneRaised
    /\ FetchRaised =>
          /\ exitStatus = EXIT_FAILURE
          /\ "Configure" \notin Range(stages)

\* The target's fstab has a root line without a UUID.
EmptyRootUuid ==
    \E i \in DOMAIN fstab : fstab[i].what = "root" /\ ~fstab[i].uuid

\* C23: the target's fstab never holds a root line with an empty UUID:
\* when the UUID of the root partition cannot be resolved _gen_fstab raises
\* before writing, and the run is aborted.
C23_NoFstabWithoutRootUuid == ~EmptyRootUuid

\* The update commands of Configure, and one of them having raised.
UpdateLines ==
    {"pacman -Syu --noconfirm", "apt update && apt upgrade -y",
     "xbps-install -Suy", "apt-get update"}
UpdateRaised ==
    \E i \in DOMAIN failed :
        failed[i].stage = "Configure" /\ failed[i].tool \in UpdateLines

\* C24: a failed package-manager update in Configure never reaches the
\* caller as an exception: the run is not aborted by it and goes on to
\* install_bootloader.
C24_UpdateFailureRecoverable == ~UpdateRaised

\* The commands of partition_handler that build the tree and enable swap.
IsRootMount(c) == c.stage = "Partition" /\ c.tool = "mount" /\ c.op = MOUNT_POINT
IsBootMount(c) ==
    c.stage = "Partition" /\ c.tool = "mount" /\ c.dev # NoArg /\ c.op # MOUNT_POINT
IsSwapOn(c) == c.stage = "Partition" /\ c.tool = "swapon"

\* Some command before the i-th of the trace satisfies Test.
Earlier(i, Test(_)) == \E j \in 1..(i - 1) : Test(cmds[j])

\* C25: in partition_handler root is mounted at the mount point before boot
\* is mounted, at /boot/efi under UEFI and at /boot under BIOS; swap is
\* activated only after these mounts; and the swap partition is never
\* mounted.
C25_RootThenBootThenSwap ==
    \A i \in DOMAIN cmds :
        /\ IsBootMount(cmds[i]) =>
              /\ cmds[i].op = BootDir(uefi)
              /\ Earlier(i, IsRootMount)
        /\ IsSwapOn(cmds[i]) =>
              /\ Earlier(i, IsRootMount)
              /\ args.boot # NoArg => Earlier(i, IsBootMount)
        /\ (cmds[i].tool = "mount" /\ args.swap # NoArg) => cmds[i].dev # args.swap

\* The place of a command of the Partition stage in the apply sequence:
\* 1 signature wipe, 2 label, 3 partition creation, 4 boot flag,
\* 5 re-read of the table (the pause follows it without a command),
\* 6 format of boot, 7 format of swap, 8 format of root; 0 for the others.
ApplyPhase(c) ==
    IF c.stage # "Partition" THEN 0
    ELSE IF c.tool = "wipefs" THEN 1
    ELSE IF c.tool = "parted" /\ c.op \in {"mklabel gpt", "mklabel msdos"} THEN 2
    ELSE IF IsMkPart(c) THEN 3
    ELSE IF c.tool = "parted" /\ c.op \in {"set 1 esp on", "set 1 boot on"} THEN 4
    ELSE IF c.tool = "partprobe" THEN 5
    ELSE IF c.tool \in {"mkfs.vfat", "mkfs.ext4"} /\ c.dev = args.boot THEN 6
    ELSE IF c.tool = "mkswap" THEN 7
    ELSE IF c.tool = "mkfs.ext4" /\ c.dev = args.rootfs THEN 8
    ELSE 0

InApplySequence(c) == ApplyPhase(c) # 0

\* C26: in whole-disk mode the commands of the Partition stage come in the
\* order wipe, label, creations, boot flag, re-read, then the formats of
\* boot, swap and root; each step but the creations is taken at most once,
\* so no format precedes the re-read.
C26_ApplySequenceInOrder ==
    WholeDisk =>
        LET seq == Only(InApplySequence)
        IN  \A i, j \in DOMAIN seq :
                i < j =>
                    /\ ApplyPhase(seq[i]) <= ApplyPhase(seq[j])
                    /\ ApplyPhase(seq[i]) = ApplyPhase(seq[j])
                          => ApplyPhase(seq[i]) = 3

\* The commands of install_bootloader.
IsRefindInstall(c) == c.stage = "Bootloader" /\ c.tool = "refind-install"
IsGrubConfig(c) ==
    /\ c.stage = "Bootloader"
    /\ c.tool \in {"grub-mkconfig -o /boot/grub/grub.cfg", "update-grub"}

\* The place in the trace of the first command that satisfies Test.
FirstIndex(Test(_)) ==
    CHOOSE i \in DOMAIN cmds : Test(cmds[i]) /\ \A j \in 1..(i - 1) : ~Test(cmds[j])

\* install_bootloader of main.py got past _emergency_install_boottools, to
\* the choice of the boot manager.
PastBootTools ==
    /\ variant = "main.py"
    /\ "Bootloader" \in Range(stages)
    /\ \A i \in DOMAIN failed : failed[i].stage = "Bootloader" => IsGrubConfig(failed[i])

\* C27: refind-install is attempted exactly when the firmware is UEFI and
\* the tool was found in the target, at most once and before grub-install;
\* grub-install is attempted exactly when refind-install was not attempted
\* or did not succeed; the boot configuration is regenerated only after a
\* grub-install that succeeded, and then it is.
C27_BootManagerFallbackChain ==
    LET R == Only(IsRefindInstall)
        G == Only(IsGrubInstall)
        K == Only(IsGrubConfig)
    IN  /\ Len(R) <= 1 /\ Len(G) <= 1 /\ Len(K) <= 1
        /\ R # <<>> <=> refindTool = "present"
        /\ refindTool # "unseen" => uefi
        /\ (PastBootTools /\ uefi) => refindTool # "unseen"
        /\ G # <<>> =>
              /\ installed # "refind"
              /\ R # <<>> => FirstIndex(IsRefindInstall) < FirstIndex(IsGrubInstall)
        /\ PastBootTools => (G # <<>> <=> installed # "refind")
        /\ K # <<>> =>
              /\ installed = "grub"
              /\ G # <<>>
              /\ FirstIndex(IsGrubInstall) < FirstIndex(IsGrubConfig)
        /\ (PastBootTools /\ installed = "grub") => K # <<>>

\* Under UEFI refind-install was found and failed, grub-install followed
\* and succeeded, and the configuration was regenerated.
C27_Witness ==
    /\ uefi
    /\ refindTool = "present"
    /\ Only(IsRefindInstall) # <<>>
    /\ Only(IsGrubInstall) # <<>>
    /\ Only(IsGrubConfig) # <<>>
    /\ installed = "grub"
    /\ pc = "done"

\* The firmware-dependent commands.
IsLabel(c) == c.tool = "parted" /\ c.op \in {"mklabel gpt", "mklabel msdos"}
IsBootFlag(c) == c.tool = "parted" /\ c.op \in {"set 1 esp on", "set 1 boot on"}
IsBootFormat(c) ==
    /\ c.stage = "Partition"
    /\ c.tool \in {"mkfs.vfat", "mkfs.ext4"}
    /\ c.dev = args.boot
    /\ args.boot # args.rootfs

\* What command c has to be under firmware mode u.
AgreesWithFirmware(c, u) ==
    /\ IsLabel(c) => c.op = (IF u THEN "mklabel gpt" ELSE "mklabel msdos")
    /\ IsBootFlag(c) => c.op = (IF u THEN "set 1 esp on" ELSE "set 1 boot on")
    /\ IsBootFormat(c) => c.tool = (IF u THEN "mkfs.vfat" ELSE "mkfs.ext4")
    /\ IsBootMount(c) => c.op = (IF u THEN "/mnt/chimera_target/boot/efi"
                                 ELSE "/mnt/chimera_target/boot")
    /\ IsGrubInstall(c) =>
          IF u THEN /\ c.op = "--target=x86_64-efi --efi-directory=/boot/efi"
                    /\ c.dev = NoArg
          ELSE /\ c.op = "--target=i386-pc"
               /\ c.dev = disk

\* The installer object exists: run() has been entered.
Constructed == pc = "safety_check" \/ stages # <<>>

\* C28: self.uefi is assigned at construction, from the firmware directory
\* of the host, and never again; every firmware-dependent command of the
\* run is the one of that mode: gpt, esp, FAT32, /boot/efi and the efi grub
\* target under UEFI, msdos, boot, ext4, /boot and the i386-pc grub target
\* with self.disk under BIOS.
C28_FirmwareChoicesAgree ==
    /\ [](\A i \in DOMAIN cmds : AgreesWithFirmware(cmds[i], uefi))
    /\ [](Constructed => uefi = efiDir)
    /\ [][Constructed => uefi' = uefi]_vars

\* A whole-disk run on a BIOS host that went through every firmware-
\* dependent choice.
C28_Witness ==
    /\ ~uefi
    /\ Only(IsLabel) # <<>>
    /\ Only(IsBootFlag) # <<>>
    /\ Only(IsBootFormat) # <<>>
    /\ Only(IsBootMount) # <<>>
    /\ Only(IsGrubInstall) # <<>>
    /\ pc = "done"

\* The three strategies of install_base, by the commands that carry them
\* out.
IsNativeBootstrap(c) ==
    c.stage = "BaseInstall" /\ c.tool \in {"pacstrap", "debootstrap"}
IsArchiveFetch(c) == c.stage = "BaseInstall" /\ c.tool = "urllib.request"
IsLiveClone(c) == c.stage = "BaseInstall" /\ c.tool = "rsync"

\* The strategies install_base started in this run.
StrategiesExecuted ==
    {s \in {"native", "fetch", "clone"} :
        \/ s = "native" /\ Only(IsNativeBootstrap) # <<>>
        \/ s = "fetch" /\ Only(IsArchiveFetch) # <<>>
        \/ s = "clone" /\ Only(IsLiveClone) # <<>>}

\* The strategy the target and the mode call for.
StrategyFor(a) ==
    IF a.target = "gentoo" THEN "fetch"
    ELSE IF a.target \in {"arch", "debian"} /\ a.online THEN "native"
    ELSE "clone"

\* C29: a run that reached BaseInstall executed exactly one base-install
\* strategy: the native bootstrap if and only if the target is arch or
\* debian and online mode was requested, the stage-archive fetch if and
\* only if the target is gentoo, the clone of the live system otherwise.
C29_ExactlyOneStrategy ==
    "BaseInstall" \in Range(stages) => StrategiesExecuted = {StrategyFor(args)}

\* The Configure stage returned to run(): the stage after it was entered.
ConfigureCompleted == "Bootloader" \in Range(stages)

\* The fstab holds a line of the given kind that names a filesystem by its
\* UUID, at the given mount point and of the given type.
HasEntry(what, dir, fs) ==
    \E i \in DOMAIN fstab :
        /\ fstab[i].what = what
        /\ fstab[i].uuid
        /\ fstab[i].dir = dir
        /\ fstab[i].fs = fs

\* The fstab _gen_fstab is to write by hand for the request.
ManualFstabComplete(a, u) ==
    /\ HasEntry("root", "/", "ext4")
    /\ a.boot # NoArg =>
         HasEntry("boot", IF u THEN "/boot/efi" ELSE "/boot",
                          IF u THEN "vfat" ELSE "ext4")
    /\ a.swap # NoArg => HasEntry("swap", "none", "swap")

\* C30: a run that completed the Configure stage has written the target's
\* /etc/fstab in that run, whatever the base-install strategy: with
\* genfstab, or by hand with a root line, a boot line (vfat at /boot/efi
\* under UEFI, ext4 at /boot under BIOS) and a swap line when a swap
\* partition is configured.
C30_FstabWrittenByConfigure ==
    ConfigureCompleted =>
        /\ fstab # <<>>
        /\ fstab = ByGenfstab \/ ManualFstabComplete(args, uefi)

\* C31: run_cmd returns True exactly when the command exited with status
\* 0; it raises exactly when the command exited non-zero under check=True
\* and ignore_error=False; for every other non-zero exit it returns False.
\* Accordingly every command that raised in a run was called with
\* check=True and ignore_error=False.
C31_RunCmdContract ==
    /\ \A rc0 \in BOOLEAN, check \in BOOLEAN, ignore_error \in BOOLEAN :
          LET r == run_cmd(rc0, check, ignore_error)
          IN  /\ r \in {"True", "False", "raise"}
              /\ r = "True" <=> rc0
              /\ r = "raise" <=> (~rc0 /\ check /\ ~ignore_error)
              /\ (~rc0 /\ (~check \/ ignore_error)) => r = "False"
    /\ \A i \in DOMAIN failed : failed[i].check /\ ~failed[i].ignore

\* A run in which calls of all four kinds were made (checked, unchecked,
\* ignoring, both) and a checked one raised.
C31_Witness ==
    /\ failed # <<>>
    /\ \A ch \in BOOLEAN, ig \in BOOLEAN :
          \E i \in DOMAIN cmds : cmds[i].check = ch /\ cmds[i].ignore = ig

\* The request selects exactly one mode: a whole disk, or a boot and a root
\* partition.
OneMode(a) ==
    \/ a.disk # NoArg /\ a.boot = NoArg /\ a.rootfs = NoArg
    \/ a.disk = NoArg /\ a.boot # NoArg /\ a.rootfs # NoArg

\* C32: the request object the installer holds is never written to: at
\* every point of a run its disk, boot, rootfs and swap fields are those
\* of the command line, so a request that selected exactly one mode still
\* does.
C32_RequestNeverMutated ==
    /\ args.disk = request.disk
    /\ args.boot = request.boot
    /\ args.rootfs = request.rootfs
    /\ args.swap = request.swap
    /\ OneMode(request) => OneMode(args)

\* The commands of the Partition stage that make a filesystem or a swap
\* area, and those that mount a partition or activate swap.
IsFormat(c) ==
    c.stage = "Partition" /\ c.tool \in {"mkfs.ext4", "mkfs.vfat", "mkswap"}
IsAttach(c) ==
    /\ c.stage = "Partition"
    /\ c.tool \in {"mount", "swapon"}
    /\ c.dev # NoArg

\* The tool that makes the filesystem command c needs on its device.
RequiredFormat(c, u) ==
    IF c.tool = "swapon" THEN "mkswap"
    ELSE IF c.op = MOUNT_POINT THEN "mkfs.ext4"
    ELSE IF u THEN "mkfs.vfat" ELSE "mkfs.ext4"

\* The devices the commands satisfying Test were given.
DevicesOf(Test(_)) == {cmds[i].dev : i \in {j \in DOMAIN cmds : Test(cmds[j])}}

\* The partition paths given on the command line.
Supplied == {request.boot, request.rootfs, request.swap} \ {NoArg}

PseudoBinds == {"--rbind /dev", "--rbind /proc", "--rbind /sys"}

\* Before the i-th command of the trace /dev, /proc and /sys were each
\* bind-mounted into the target.
BoundBefore(i) ==
    \A b \in PseudoBinds :
        \E j \in 1..(i - 1) :
            /\ cmds[j].stage = "MountPseudo"
            /\ cmds[j].tool = "mount"
            /\ cmds[j].op = b

IsNetworkStrategy(c) == IsNativeBootstrap(c) \/ IsArchiveFetch(c)

\* The place of a stage among the stages entered, 0 when it was not.
EnteredAt(s) ==
    IF s \in Range(stages)
    THEN CHOOSE i \in DOMAIN stages : stages[i] = s
    ELSE 0

\* The run went through NetworkCheck before Partition and a probe made
\* there found the connection: the first of the run, or the second after a
\* first that failed (NetworkCheck makes the first probes of a run).
ConnectionVerified ==
    /\ EnteredAt("NetworkCheck") # 0
    /\ EnteredAt("NetworkCheck") < EnteredAt("Partition")
    /\ probes # <<>>
    /\ probes[1] \/ (Len(probes) >= 2 /\ probes[2])

\* C36: a network-dependent base-install strategy (pacstrap, debootstrap,
\* the download of the stage archive) is only started in a run whose
\* connectivity probe succeeded in NetworkCheck, before the Partition stage.
C36_NetworkStrategyAfterProbe ==
    (\E i \in DOMAIN cmds : IsNetworkStrategy(cmds[i])) => ConnectionVerified

\* A native bootstrap started after a first probe that failed and a second
\* that succeeded.
C36_Witness ==
    /\ Only(IsNativeBootstrap) # <<>>
    /\ probes = <<FALSE, TRUE>>

\* C37: a run that ends without having entered the Partition stage issues
\* no command inside the target: every command it ran was run on the host,
\* and the only command of its Cleanup is the recursive unmount of the
\* mount point.
C37_EarlyExitStaysOnHost ==
    "Partition" \notin Range(stages) =>
        \A i \in DOMAIN cmds :
            /\ cmds[i].where \notin {"chroot", "arch-chroot"}
            /\ cmds[i].stage = "Cleanup" => IsCleanupUmount(cmds[i])

\* The value that follows a flag in an argument vector, None when the flag
\* is not in it.
ValueOf(argv, flag) ==
    IF \E i \in 1..(Len(argv) - 1) : argv[i] = flag
    THEN argv[(CHOOSE i \in 1..(Len(argv) - 1) : argv[i] = flag) + 1]
    ELSE None

\* What get_cmd_list writes where install_data holds no path.
Placeholders == {"[NO_DISK]", "[NO_ROOT]", "[NO_BOOT]"}

\* The argument vector names the device(s) of exactly one method: a disk,
\* or a root and a boot partition that differ; and no placeholder.
NamesDevices(argv) ==
    LET d == ValueOf(argv, "--disk")
        r == ValueOf(argv, "--rootfs")
        b == ValueOf(argv, "--boot")
    IN  /\ {d, r, b} \cap Placeholders = {}
        /\ \/ d # None /\ r = None /\ b = None
           \/ d = None /\ r # None /\ b # None /\ r # b

\* C34: whatever the sequence of Next, Back, debug-settings and refresh
\* actions, every command line handed to the backend process carries
\* either a non-empty --disk or non-empty and distinct --rootfs and --boot,
\* and never a placeholder value.
C34_LaunchedCommandNamesDevices ==
    \A i \in DOMAIN process : NamesDevices(process[i].cmd)

\* A manual-method command was launched, after the debug dialog had
\* copied the widgets into install_data while the whole-disk method was
\* still the one recorded by the Disk Setup page.
C34_Witness ==
    /\ process # <<>>
    /\ ValueOf(process[1].cmd, "--rootfs") = "/dev/sda2"
    /\ ValueOf(process[1].cmd, "--boot") = "/dev/sda1"
    /\ install_data.swap_size = 0
    /\ spin_swap = 0

\* C38: in both wizards the backend process is started at most once, only
\* by go_next on the Summary page, only after the question "Disk changes
\* are permanent. Proceed?" was answered Yes, and never with dry-run
\* enabled: a dry run prints the command and starts nothing.
C38_LaunchOnlyConfirmedFromSummary ==
    /\ Len(process) <= 1
    /\ \A i \in DOMAIN process :
          /\ process[i].from = Idx(gui, "Summary")
          /\ process[i].answer = "Yes"
          /\ ~process[i].dry_run
    /\ txt_log # <<>> => process = <<>>
    /\ process # <<>> \/ txt_log # <<>> => page = Idx(gui, "Install")

\* The process was started, and dry-run was switched on in the debug
\* dialog afterwards.
C38_Witness ==
    /\ Len(process) = 1
    /\ dry_run
    /\ page = Idx(gui, "Install")

\* The options the parser of chimera.py defines.
flags_c ==
    {"--disk", "--boot", "--rootfs", "--swap", "--target", "--online",
     "--init", "--profile", "--user", "--passwd", "--run", "--timezone",
     "--debug", "--i-am-very-stupid"}

\* The options the parser of main.py defines.
flags_m ==
    {"--disk", "--boot", "--rootfs", "--swap", "--target", "--online",
     "--init", "--profile", "--tui", "--i-am-very-stupid"}

\* The option strings in an argument vector (no value a wizard passes
\* begins with a dash, "-u" belongs to python3).
Emitted(argv) ==
    {argv[i] : i \in {j \in 4..Len(argv) : argv[j] \in flags_c \cup flags_m \cup {"--offline"}}}

\* The parser of the backend a wizard launches knows every option of the
\* argument vector and the value of --target.
ParserKnows(g, argv) ==
    IF g = "chimera-gui.py"
    THEN /\ Emitted(argv) \subseteq flags_c
         /\ ValueOf(argv, "--target") \in choices_c
    ELSE /\ Emitted(argv) \subseteq flags_m
         /\ ValueOf(argv, "--target") \in choices_m

\* C39: every command line get_cmd_list can build, in any state of a
\* wizard, uses only options the parser of the launched backend defines and
\* a --target value among that parser's choices.
C39_GeneratedCommandAccepted ==
    gui \in Wizards => ParserKnows(gui, get_cmd_list(gui, install_data, os_info))

====
